---- MODULE Spec2Model ----
(***************************************************************************)
(* Model of the infinitex whiteboard (src/src/app.rs, canvas.rs,           *)
(* models.rs, selection.rs): the scene, the undo history, the tools'       *)
(* pointer handlers and the Select tool's move / scale / rotate gestures.  *)
(*                                                                         *)
(* Numbers.  Every f32 of the program is modelled as an exact rational     *)
(* <<n, d>> in lowest terms with d > 0, so the arithmetic of the model is  *)
(* the real-number arithmetic the f32 code approximates.  A rotation angle *)
(* is carried as the pair (cos, sin) of the angle.                         *)
(*                                                                         *)
(* Option<T> is modelled as a sequence of length 0 (None) or 1 (Some).     *)
(***************************************************************************)
EXTENDS Integers, Sequences, FiniteSets, TLC

VARIABLES
    objects,                    \* WhiteboardApp::objects, the scene in z-order
    undo_stack,                 \* WhiteboardApp::undo_stack, oldest first
    current_tool,               \* WhiteboardApp::current_tool
    canvas_zoom,                \* WhiteboardApp::canvas_zoom
    canvas_offset,              \* WhiteboardApp::canvas_offset
    is_drawing,                 \* WhiteboardApp::is_drawing
    current_stroke,             \* WhiteboardApp::current_stroke
    draw_start_pos,             \* WhiteboardApp::draw_start_pos
    selected_objects,           \* WhiteboardApp::selected_objects
    selection_start,            \* WhiteboardApp::selection_start
    selection_rect,             \* WhiteboardApp::selection_rect
    selection_mode,             \* WhiteboardApp::selection_mode
    selection_drag_start,       \* WhiteboardApp::selection_drag_start
    selection_original_bounds,  \* WhiteboardApp::selection_original_bounds
    selection_handle,           \* WhiteboardApp::selection_handle
    selection_saved_objects,    \* WhiteboardApp::selection_saved_objects
    editing_text,               \* WhiteboardApp::editing_text
    text_input,                 \* WhiteboardApp::text_input
    text_cursor_pos,            \* WhiteboardApp::text_cursor_pos
    next_id,                    \* the next value Uuid::new_v4() returns
    pointer,                    \* egui: the canvas position of the drag in progress
    count,                      \* events so far: [drags, steps, pushes, undos]
    limit                       \* exploration caps on count, fixed by Init

vars == <<objects, undo_stack, current_tool, canvas_zoom, canvas_offset,
          is_drawing,
          current_stroke, draw_start_pos, selected_objects, selection_start,
          selection_rect, selection_mode, selection_drag_start,
          selection_original_bounds, selection_handle,
          selection_saved_objects, editing_text, text_input,
          text_cursor_pos, next_id, pointer, count, limit>>

----------------------------------------------------------------------------
(* f32 arithmetic as exact rationals                                        *)

\* Rust evaluates the right-hand side of a binding before it goes on: F is
\* applied to the value of e
Strict(F(_), e) == CHOOSE r \in {F(v) : v \in {e}} : TRUE

RECURSIVE Gcd(_, _)
Gcd(a, b) == IF b = 0 THEN a ELSE Gcd(b, a % b)

IAbs(n) == IF n < 0 THEN -n ELSE n

Q(n, d) ==
    LET s == IF d < 0 THEN -1 ELSE 1
        g == Gcd(IAbs(n), IAbs(d))
    IN  <<(s * n) \div g, (s * d) \div g>>

F(n) == <<n, 1>>

\* sums and products are formed over the reduced common denominator, so that
\* the intermediate integers stay small
FAdd(a, b) ==
    IF a[2] = b[2] THEN Q(a[1] + b[1], a[2])
    ELSE LET g == Gcd(a[2], b[2])
         IN  Q(a[1] * (b[2] \div g) + b[1] * (a[2] \div g), (a[2] \div g) * b[2])
FSub(a, b) ==
    IF a[2] = b[2] THEN Q(a[1] - b[1], a[2])
    ELSE LET g == Gcd(a[2], b[2])
         IN  Q(a[1] * (b[2] \div g) - b[1] * (a[2] \div g), (a[2] \div g) * b[2])
FMul(a, b) ==
    LET g1 == Gcd(IAbs(a[1]), b[2])
        g2 == Gcd(IAbs(b[1]), a[2])
    IN  <<(a[1] \div g1) * (b[1] \div g2), (a[2] \div g2) * (b[2] \div g1)>>
FDiv(a, b) ==
    FMul(a, IF b[1] < 0 THEN <<-b[2], -b[1]>> ELSE <<b[2], b[1]>>)
FNeg(a) == <<-a[1], a[2]>>
FLt(a, b) ==
    IF a[2] = b[2] THEN a[1] < b[1]
    ELSE LET g == Gcd(a[2], b[2]) IN a[1] * (b[2] \div g) < b[1] * (a[2] \div g)
FLe(a, b) ==
    IF a[2] = b[2] THEN a[1] <= b[1]
    ELSE LET g == Gcd(a[2], b[2]) IN a[1] * (b[2] \div g) <= b[1] * (a[2] \div g)
FMin(a, b) == IF FLt(b, a) THEN b ELSE a
FMax(a, b) == IF FLt(a, b) THEN b ELSE a
FAbs(a) == <<IAbs(a[1]), a[2]>>

\* the integer square root of a perfect square n >= 0, and -1 for any other n
RECURSIVE SqrtSearch(_, _, _)
SqrtSearch(n, lo, hi) ==
    IF lo >= hi THEN lo
    ELSE LET mid == (lo + hi + 1) \div 2
         IN  IF mid * mid <= n THEN SqrtSearch(n, mid, hi)
             ELSE SqrtSearch(n, lo, mid - 1)

ISqrt(n) ==
    LET r == SqrtSearch(n, 0, IF n < 46340 THEN n ELSE 46340)
    IN  IF r * r = n THEN r ELSE -1

\* a rational has a rational square root iff numerator and denominator are squares
HasSqrt(a) == a[1] >= 0 /\ ISqrt(a[1]) >= 0 /\ ISqrt(a[2]) >= 0
FSqrt(a) == <<ISqrt(a[1]), ISqrt(a[2])>>

None == <<>>
Some(x) == <<x>>

F32_MAX == 100000

----------------------------------------------------------------------------
(* models.rs: the drawable objects                                          *)

BLACK == <<0, 0, 0, 255>>

Stroke(id, points, color, width) ==
    [kind |-> "Stroke", id |-> id, points |-> points, color |-> color,
     width |-> width]

Line(id, start, end, color, width) ==
    [kind |-> "Line", id |-> id, start |-> start, end |-> end,
     color |-> color, width |-> width]

Circle(id, center, radius, color, width, filled) ==
    [kind |-> "Circle", id |-> id, center |-> center, radius |-> radius,
     color |-> color, width |-> width, filled |-> filled]

Rectangle(id, min, max, color, width, filled) ==
    [kind |-> "Rectangle", id |-> id, min |-> min, max |-> max,
     color |-> color, width |-> width, filled |-> filled]

LatexFormula(id, pos, formula, color, cached_size) ==
    [kind |-> "LatexFormula", id |-> id, pos |-> pos, formula |-> formula,
     color |-> color, cached_size |-> cached_size]

\* the running min_x, min_y, max_x, max_y of bounds' loop over the points of a
\* stroke: the least and the greatest coordinate on each axis
Least(S) == CHOOSE m \in S : \A x \in S : FLe(m, x)
Greatest(S) == CHOOSE m \in S : \A x \in S : FLe(x, m)
StrokeExtent(points) ==
    <<<<Least({points[i][1] : i \in 1..Len(points)}),
        Least({points[i][2] : i \in 1..Len(points)})>>,
      <<Greatest({points[i][1] : i \in 1..Len(points)}),
        Greatest({points[i][2] : i \in 1..Len(points)})>>>>

bounds(obj) ==
    CASE obj.kind = "Stroke" ->
            IF obj.points = <<>> THEN <<<<F(0), F(0)>>, <<F(0), F(0)>>>>
            ELSE LET e == StrokeExtent(obj.points)
                     half_width == FDiv(obj.width, F(2))
                 IN  <<<<FSub(e[1][1], half_width), FSub(e[1][2], half_width)>>,
                       <<FAdd(e[2][1], half_width), FAdd(e[2][2], half_width)>>>>
      [] obj.kind = "Line" ->
            LET half_width == FDiv(obj.width, F(2))
            IN  <<<<FSub(FMin(obj.start[1], obj.end[1]), half_width),
                    FSub(FMin(obj.start[2], obj.end[2]), half_width)>>,
                  <<FAdd(FMax(obj.start[1], obj.end[1]), half_width),
                    FAdd(FMax(obj.start[2], obj.end[2]), half_width)>>>>
      [] obj.kind = "Circle" ->
            LET r == FAdd(obj.radius, FDiv(obj.width, F(2)))
            IN  <<<<FSub(obj.center[1], r), FSub(obj.center[2], r)>>,
                  <<FAdd(obj.center[1], r), FAdd(obj.center[2], r)>>>>
      [] obj.kind = "Rectangle" ->
            LET half_width == FDiv(obj.width, F(2))
            IN  <<<<FSub(obj.min[1], half_width), FSub(obj.min[2], half_width)>>,
                  <<FAdd(obj.max[1], half_width), FAdd(obj.max[2], half_width)>>>>
      [] obj.kind = "LatexFormula" ->
            LET size == IF obj.cached_size = None THEN <<F(100), F(40)>>
                        ELSE obj.cached_size[1]
            IN  <<obj.pos, <<FAdd(obj.pos[1], size[1]), FAdd(obj.pos[2], size[2])>>>>

\* min <= p <= max on both axes, for b = (min, max)


\* min <= p <= max on both axes, for b = (min, max)
InsideBounds(p, b) ==
    /\ FLe(b[1][1], p[1]) /\ FLe(p[1], b[2][1])
    /\ FLe(b[1][2], p[2]) /\ FLe(p[2], b[2][2])

contains_point(obj, point) == InsideBounds(point, bounds(obj))

----------------------------------------------------------------------------
(* canvas.rs                                                                *)

SEGMENTS == 5

\* one coordinate of the Catmull-Rom point at parameter t between p1 and p2
CatmullRom(p0, p1, p2, p3, t) ==
    LET t2 == FMul(t, t)
        t3 == FMul(t2, t)
    IN  FMul(Q(1, 2),
          FAdd(FAdd(FAdd(
            FMul(F(2), p1),
            FMul(FAdd(FNeg(p0), p2), t)),
            FMul(FSub(FAdd(FSub(FMul(F(2), p0), FMul(F(5), p1)),
                           FMul(F(4), p2)), p3), t2)),
            FMul(FAdd(FSub(FAdd(FNeg(p0), FMul(F(3), p1)),
                           FMul(F(3), p2)), p3), t3)))

\* a window whose parameter t runs over 1/5, ..., 1 and not over 0, ..., 4/5
SmoothSegmentLate(points, i) ==
    LET n  == Len(points)
        p0 == IF i = 0 THEN points[1] ELSE points[i]
        p1 == points[i + 1]
        p2 == points[i + 2]
        p3 == IF i + 2 < n THEN points[i + 3] ELSE points[i + 2]
    IN  [k \in 1..SEGMENTS |->
            LET t == Q(k, SEGMENTS)
            IN  <<CatmullRom(p0[1], p1[1], p2[1], p3[1], t),
                  CatmullRom(p0[2], p1[2], p2[2], p3[2], t)>>]

\* the SEGMENTS points pushed for the window starting at 0-based index i
SmoothSegment(points, i) ==
    LET n  == Len(points)
        p0 == IF i = 0 THEN points[1] ELSE points[i]
        p1 == points[i + 1]
        p2 == points[i + 2]
        p3 == IF i + 2 < n THEN points[i + 3] ELSE points[i + 2]
    IN  [k \in 1..SEGMENTS |->
            LET t == Q(k - 1, SEGMENTS)
            IN  <<CatmullRom(p0[1], p1[1], p2[1], p3[1], t),
                  CatmullRom(p0[2], p1[2], p2[2], p3[2], t)>>]

RECURSIVE SmoothLoop(_, _, _)
SmoothLoop(points, i, smoothed) ==
    IF i >= Len(points) - 1 THEN smoothed
    ELSE Strict(LAMBDA s : SmoothLoop(points, i + 1, s),
                smoothed \o SmoothSegment(points, i))

\* a smoothing that does not push the last input point
smooth_stroke_open(points) ==
    IF Len(points) < 3 THEN points
    ELSE SmoothLoop(points, 0, <<points[1]>>)

\* a smoothing that returns only inputs of fewer than 2 points as they are
smooth_stroke_pairs(points) ==
    IF Len(points) < 2 THEN points
    ELSE Append(SmoothLoop(points, 0, <<points[1]>>), points[Len(points)])

smooth_stroke(points) ==
    IF Len(points) < 3 THEN points
    ELSE Append(SmoothLoop(points, 0, <<points[1]>>), points[Len(points)])

RECURSIVE FindLast(_, _, _)
FindLast(objs, i, canvas_pos) ==
    IF i = 0 THEN None
    ELSE IF contains_point(objs[i], canvas_pos) THEN Some(objs[i].id)
    ELSE FindLast(objs, i - 1, canvas_pos)

\* a search that returns the first object in scene order that contains the point
RECURSIVE FindFirst(_, _, _)
FindFirst(objs, i, canvas_pos) ==
    IF i > Len(objs) THEN None
    ELSE IF contains_point(objs[i], canvas_pos) THEN Some(objs[i].id)
    ELSE FindFirst(objs, i + 1, canvas_pos)

find_first_object_at(objs, canvas_pos) == FindFirst(objs, 1, canvas_pos)

find_object_at(objs, canvas_pos) == FindLast(objs, Len(objs), canvas_pos)

----------------------------------------------------------------------------
(* selection.rs                                                             *)

\* objects.iter().position(|o| o.id() == id) + 1, or 0 when no object has the id
RECURSIVE FindFrom(_, _, _)
FindFrom(objs, id, i) ==
    IF i > Len(objs) THEN 0
    ELSE IF objs[i].id = id THEN i
    ELSE FindFrom(objs, id, i + 1)

Find(objs, id) == FindFrom(objs, id, 1)

\* a running (min, max) that keeps the far corner of the latest object only
ExtendLatestMax(acc, b) ==
    <<<<FMin(acc[1][1], b[1][1]), FMin(acc[1][2], b[1][2])>>, b[2]>>

\* the running (min, max) after one more object's bounds
Extend(acc, b) ==
    <<<<FMin(acc[1][1], b[1][1]), FMin(acc[1][2], b[1][2])>>,
      <<FMax(acc[2][1], b[2][1]), FMax(acc[2][2], b[2][2])>>>>

\* a loop that stops at the first id that does not resolve
RECURSIVE BoundsLoopBreak(_, _, _, _)
BoundsLoopBreak(objs, selected, i, acc) ==
    IF i > Len(selected) THEN acc
    ELSE IF Find(objs, selected[i]) = 0
         THEN acc
         ELSE Strict(LAMBDA b : BoundsLoopBreak(objs, selected, i + 1, b),
                     Extend(acc, bounds(objs[Find(objs, selected[i])])))

RECURSIVE BoundsLoop(_, _, _, _)
BoundsLoop(objs, selected, i, acc) ==
    IF i > Len(selected) THEN acc
    ELSE IF Find(objs, selected[i]) = 0
         THEN BoundsLoop(objs, selected, i + 1, acc)
         ELSE Strict(LAMBDA b : BoundsLoop(objs, selected, i + 1, b),
                     Extend(acc, bounds(objs[Find(objs, selected[i])])))

get_selection_bounds(objs, selected) ==
    IF selected = <<>> THEN None
    ELSE Some(BoundsLoop(objs, selected, 1,
                <<<<F(F32_MAX), F(F32_MAX)>>, <<F(-F32_MAX), F(-F32_MAX)>>>>))

HANDLE_PIXELS == 10
ROTATE_PIXELS == 30

Near(a, b, handle_size) == FLt(FAbs(FSub(a, b)), handle_size)

\* a handle test that looks at the edge handles before the corner handles
get_handle_edges_first(canvas_pos, bnds, zoom) ==
    LET min == bnds[1]
        max == bnds[2]
        handle_size == FDiv(F(HANDLE_PIXELS), zoom)
        mid_x == FDiv(FAdd(min[1], max[1]), F(2))
        mid_y == FDiv(FAdd(min[2], max[2]), F(2))
        rotate_y == FSub(min[2], FDiv(F(ROTATE_PIXELS), zoom))
        x == canvas_pos[1]
        y == canvas_pos[2]
    IN  IF Near(x, mid_x, handle_size) /\ Near(y, min[2], handle_size)
            THEN Some("Top")
        ELSE IF Near(x, mid_x, handle_size) /\ Near(y, max[2], handle_size)
            THEN Some("Bottom")
        ELSE IF Near(x, min[1], handle_size) /\ Near(y, mid_y, handle_size)
            THEN Some("Left")
        ELSE IF Near(x, max[1], handle_size) /\ Near(y, mid_y, handle_size)
            THEN Some("Right")
        ELSE IF Near(x, min[1], handle_size) /\ Near(y, min[2], handle_size)
            THEN Some("TopLeft")
        ELSE IF Near(x, max[1], handle_size) /\ Near(y, min[2], handle_size)
            THEN Some("TopRight")
        ELSE IF Near(x, min[1], handle_size) /\ Near(y, max[2], handle_size)
            THEN Some("BottomLeft")
        ELSE IF Near(x, max[1], handle_size) /\ Near(y, max[2], handle_size)
            THEN Some("BottomRight")
        ELSE IF Near(x, mid_x, handle_size) /\ Near(y, rotate_y, handle_size)
            THEN Some("Rotate")
        ELSE None

get_handle_at_pos(canvas_pos, bnds, zoom) ==
    LET min == bnds[1]
        max == bnds[2]
        handle_size == FDiv(F(HANDLE_PIXELS), zoom)
        mid_x == FDiv(FAdd(min[1], max[1]), F(2))
        mid_y == FDiv(FAdd(min[2], max[2]), F(2))
        rotate_y == FSub(min[2], FDiv(F(ROTATE_PIXELS), zoom))
        x == canvas_pos[1]
        y == canvas_pos[2]
    IN  IF Near(x, min[1], handle_size) /\ Near(y, min[2], handle_size)
            THEN Some("TopLeft")
        ELSE IF Near(x, max[1], handle_size) /\ Near(y, min[2], handle_size)
            THEN Some("TopRight")
        ELSE IF Near(x, min[1], handle_size) /\ Near(y, max[2], handle_size)
            THEN Some("BottomLeft")
        ELSE IF Near(x, max[1], handle_size) /\ Near(y, max[2], handle_size)
            THEN Some("BottomRight")
        ELSE IF Near(x, mid_x, handle_size) /\ Near(y, min[2], handle_size)
            THEN Some("Top")
        ELSE IF Near(x, mid_x, handle_size) /\ Near(y, max[2], handle_size)
            THEN Some("Bottom")
        ELSE IF Near(x, min[1], handle_size) /\ Near(y, mid_y, handle_size)
            THEN Some("Left")
        ELSE IF Near(x, max[1], handle_size) /\ Near(y, mid_y, handle_size)
            THEN Some("Right")
        ELSE IF Near(x, mid_x, handle_size) /\ Near(y, rotate_y, handle_size)
            THEN Some("Rotate")
        ELSE None

\* rotation 0.0: the angle whose (cos, sin) is (1, 0)
NoRotation == [cos |-> F(1), sin |-> F(0)]

\* the point arithmetic transform_objects repeats for every variant
Rotated(v, rotation) ==
    IF rotation # NoRotation
    THEN <<FSub(FMul(v[1], rotation.cos), FMul(v[2], rotation.sin)),
           FAdd(FMul(v[1], rotation.sin), FMul(v[2], rotation.cos))>>
    ELSE v

Scaled(v, scale) == <<FMul(v[1], scale[1]), FMul(v[2], scale[2])>>

\* x + center + translation, per axis
Placed(v, center, translation) ==
    <<FAdd(FAdd(v[1], center[1]), translation[1]),
      FAdd(FAdd(v[2], center[2]), translation[2])>>

TransformPoint(pos, scale, rotation, translation, center) ==
    Placed(Scaled(Rotated(<<FSub(pos[1], center[1]), FSub(pos[2], center[2])>>,
                          rotation), scale),
           center, translation)

\* a transform that scales the radius of a circle by the smaller factor
TransformObjectMinRadius(obj, scale, rotation, translation, center) ==
    CASE obj.kind = "Stroke" ->
            [obj EXCEPT !.points =
                [i \in 1..Len(obj.points) |->
                    TransformPoint(obj.points[i], scale, rotation, translation, center)]]
      [] obj.kind = "Line" ->
            [obj EXCEPT
                !.start = TransformPoint(obj.start, scale, rotation, translation, center),
                !.end = TransformPoint(obj.end, scale, rotation, translation, center)]
      [] obj.kind = "Circle" ->
            [obj EXCEPT
                !.center = TransformPoint(obj.center, scale, rotation, translation, center),
                !.radius = FMul(obj.radius, FMin(scale[1], scale[2]))]
      [] obj.kind = "Rectangle" ->
            [obj EXCEPT
                !.min = TransformPoint(obj.min, scale, rotation, translation, center),
                !.max = TransformPoint(obj.max, scale, rotation, translation, center)]
      [] obj.kind = "LatexFormula" ->
            [obj EXCEPT
                !.pos = TransformPoint(obj.pos, scale, rotation, translation, center)]

TransformObject(obj, scale, rotation, translation, center) ==
    CASE obj.kind = "Stroke" ->
            [obj EXCEPT !.points =
                [i \in 1..Len(obj.points) |->
                    TransformPoint(obj.points[i], scale, rotation, translation, center)]]
      [] obj.kind = "Line" ->
            [obj EXCEPT
                !.start = TransformPoint(obj.start, scale, rotation, translation, center),
                !.end = TransformPoint(obj.end, scale, rotation, translation, center)]
      [] obj.kind = "Circle" ->
            [obj EXCEPT
                !.center = TransformPoint(obj.center, scale, rotation, translation, center),
                !.radius = FMul(obj.radius, FMax(scale[1], scale[2]))]
      [] obj.kind = "Rectangle" ->
            [obj EXCEPT
                !.min = TransformPoint(obj.min, scale, rotation, translation, center),
                !.max = TransformPoint(obj.max, scale, rotation, translation, center)]
      [] obj.kind = "LatexFormula" ->
            [obj EXCEPT
                !.pos = TransformPoint(obj.pos, scale, rotation, translation, center)]

RECURSIVE TransformLoop(_, _, _, _, _, _, _)
TransformLoop(objs, selected, i, scale, rotation, translation, center) ==
    IF i > Len(selected) THEN objs
    ELSE IF Find(objs, selected[i]) = 0
         THEN TransformLoop(objs, selected, i + 1, scale, rotation,
                            translation, center)
         ELSE Strict(LAMBDA o : TransformLoop(o, selected, i + 1, scale, rotation,
                                              translation, center),
                     [objs EXCEPT ![Find(objs, selected[i])] =
                         TransformObject(@, scale, rotation, translation, center)])

\* a transform that is applied to every object of the scene
transform_all_objects(objs, selected, scale, rotation, translation, center) ==
    [k \in 1..Len(objs) |->
        TransformObject(objs[k], scale, rotation, translation, center)]

transform_objects(objs, selected, scale, rotation, translation, center) ==
    Strict(LAMBDA a : TransformLoop(objs, selected, 1, a[1], a[2], a[3], a[4]),
           <<scale, rotation, translation, center>>)

----------------------------------------------------------------------------
(* app.rs: history                                                          *)

HISTORY_MAX == 50

\* a push that tests the length with > in place of >=
push_undo_late(stack, objs) ==
    Append(IF Len(stack) > HISTORY_MAX THEN Tail(stack) ELSE stack, objs)

push_undo(stack, objs) ==
    Append(IF Len(stack) >= HISTORY_MAX THEN Tail(stack) ELSE stack, objs)

BRUSH_SIZE == 2

----------------------------------------------------------------------------
(* app.rs: handle_select_tool, as a function of the fields it reads and     *)
(* writes.  A frame runs its three blocks in order: drag_started, dragged,  *)
(* drag_stopped.                                                            *)

SelectFields ==
    [objects |-> objects,
     selected_objects |-> selected_objects,
     selection_start |-> selection_start,
     selection_rect |-> selection_rect,
     selection_mode |-> selection_mode,
     selection_drag_start |-> selection_drag_start,
     selection_original_bounds |-> selection_original_bounds,
     selection_handle |-> selection_handle,
     selection_saved_objects |-> selection_saved_objects]

\* selected_objects.iter().filter_map(|id| objects.iter().find(..).cloned())
RECURSIVE SaveLoop(_, _, _, _)
SaveLoop(objs, selected, i, saved) ==
    IF i > Len(selected) THEN saved
    ELSE LET k == Find(objs, selected[i])
         IN  SaveLoop(objs, selected, i + 1,
                      IF k = 0 THEN saved ELSE Append(saved, objs[k]))

\* a restore that puts a saved object back into the scene when its id is gone
RECURSIVE RestoreLoopInsert(_, _, _)
RestoreLoopInsert(objs, saved, i) ==
    IF i > Len(saved) THEN objs
    ELSE LET k == Find(objs, saved[i].id)
         IN  RestoreLoopInsert(IF k = 0 THEN Append(objs, saved[i])
                                        ELSE [objs EXCEPT ![k] = saved[i]],
                               saved, i + 1)

\* for saved_obj in saved { if let Some(cur) = objects.find(id) { *cur = saved_obj } }
RECURSIVE RestoreLoop(_, _, _)
RestoreLoop(objs, saved, i) ==
    IF i > Len(saved) THEN objs
    ELSE LET k == Find(objs, saved[i].id)
         IN  RestoreLoop(IF k = 0 THEN objs ELSE [objs EXCEPT ![k] = saved[i]],
                         saved, i + 1)

Center(b) ==
    <<FDiv(FAdd(b[1][1], b[2][1]), F(2)), FDiv(FAdd(b[1][2], b[2][2]), F(2))>>

\* a drag start that tests the inside of the bounds before the handles
DragStartedInsideFirst(s, canvas_pos, b, handle) ==
    IF InsideBounds(canvas_pos, b)
    THEN [s EXCEPT !.selection_mode = "Moving",
                   !.selection_drag_start = Some(canvas_pos)]
    ELSE IF handle # None
    THEN [s EXCEPT
            !.selection_handle = handle,
            !.selection_drag_start = Some(canvas_pos),
            !.selection_original_bounds = Some(b),
            !.selection_saved_objects =
                SaveLoop(s.objects, s.selected_objects, 1, <<>>),
            !.selection_mode =
                IF handle[1] = "Rotate" THEN "Rotating" ELSE "Scaling"]
    ELSE [s EXCEPT !.selected_objects = <<>>,
                   !.selection_start = Some(canvas_pos),
                   !.selection_mode = "Selecting"]

\* drag_started with a non-empty selection: handle is get_handle_at_pos's answer
DragStartedOn(s, canvas_pos, b, handle) ==
    IF handle # None
    THEN [s EXCEPT
            !.selection_handle = handle,
            !.selection_drag_start = Some(canvas_pos),
            !.selection_original_bounds = Some(b),
            !.selection_saved_objects =
                SaveLoop(s.objects, s.selected_objects, 1, <<>>),
            !.selection_mode =
                IF handle[1] = "Rotate" THEN "Rotating" ELSE "Scaling"]
    ELSE IF InsideBounds(canvas_pos, b)
    THEN [s EXCEPT !.selection_mode = "Moving",
                   !.selection_drag_start = Some(canvas_pos)]
    ELSE [s EXCEPT !.selected_objects = <<>>,
                   !.selection_start = Some(canvas_pos),
                   !.selection_mode = "Selecting"]

SelectDragStarted(s, canvas_pos, zoom) ==
    Strict(LAMBDA b :
               IF b # None
               THEN DragStartedOn(s, canvas_pos, b[1],
                                  get_handle_at_pos(canvas_pos, b[1], zoom))
               ELSE [s EXCEPT !.selection_start = Some(canvas_pos),
                              !.selection_mode = "Selecting"],
           get_selection_bounds(s.objects, s.selected_objects))

MIN_EXTENT == 10

\* a Scaling step whose edge handles measure the distance to the opposite edge
NewSizeDistance(orig_bounds, handle, canvas_pos) ==
    LET min == orig_bounds[1]
        max == orig_bounds[2]
        orig_width  == FSub(max[1], min[1])
        orig_height == FSub(max[2], min[2])
        lo == F(MIN_EXTENT)
    IN  CASE handle \in {"Left", "Right"} ->
                <<FMax(FAbs(FSub(canvas_pos[1],
                                 IF handle = "Right" THEN min[1] ELSE max[1])), lo),
                  orig_height>>
          [] handle \in {"Top", "Bottom"} ->
                <<orig_width,
                  FMax(FAbs(FSub(canvas_pos[2],
                                 IF handle = "Bottom" THEN min[2] ELSE max[2])), lo)>>
          [] OTHER ->
                LET ref == CASE handle = "TopLeft"     -> <<max[1], max[2]>>
                             [] handle = "TopRight"    -> <<min[1], max[2]>>
                             [] handle = "BottomLeft"  -> <<max[1], min[2]>>
                             [] handle = "BottomRight" -> <<min[1], min[2]>>
                    new_width  == FMax(FAbs(FSub(canvas_pos[1], ref[1])), lo)
                    new_height == FMax(FAbs(FSub(canvas_pos[2], ref[2])), lo)
                    aspect == FDiv(orig_width, orig_height)
                IN  IF FLt(aspect, FDiv(new_width, new_height))
                    THEN <<new_width, FDiv(new_width, aspect)>>
                    ELSE <<FMul(new_height, aspect), new_height>>

\* a Scaling step whose edge handles set no lower limit to the new extent
NewSizeSigned(orig_bounds, handle, canvas_pos) ==
    LET min == orig_bounds[1]
        max == orig_bounds[2]
        orig_width  == FSub(max[1], min[1])
        orig_height == FSub(max[2], min[2])
    IN  CASE handle = "Right"  -> <<FSub(canvas_pos[1], min[1]), orig_height>>
          [] handle = "Left"   -> <<FSub(max[1], canvas_pos[1]), orig_height>>
          [] handle = "Bottom" -> <<orig_width, FSub(canvas_pos[2], min[2])>>
          [] handle = "Top"    -> <<orig_width, FSub(max[2], canvas_pos[2])>>
          [] OTHER -> <<orig_width, orig_height>>

\* the (new_width, new_height) of a Scaling step
NewSize(orig_bounds, handle, canvas_pos) ==
    LET min == orig_bounds[1]
        max == orig_bounds[2]
        orig_width  == FSub(max[1], min[1])
        orig_height == FSub(max[2], min[2])
        lo == F(MIN_EXTENT)
    IN  CASE handle = "Right"  -> <<FMax(FSub(canvas_pos[1], min[1]), lo), orig_height>>
          [] handle = "Left"   -> <<FMax(FSub(max[1], canvas_pos[1]), lo), orig_height>>
          [] handle = "Bottom" -> <<orig_width, FMax(FSub(canvas_pos[2], min[2]), lo)>>
          [] handle = "Top"    -> <<orig_width, FMax(FSub(max[2], canvas_pos[2]), lo)>>
          [] handle \in {"TopLeft", "TopRight", "BottomLeft", "BottomRight"} ->
                LET ref == CASE handle = "TopLeft"     -> <<max[1], max[2]>>
                             [] handle = "TopRight"    -> <<min[1], max[2]>>
                             [] handle = "BottomLeft"  -> <<max[1], min[2]>>
                             [] handle = "BottomRight" -> <<min[1], min[2]>>
                    new_width  == FMax(FAbs(FSub(canvas_pos[1], ref[1])), lo)
                    new_height == FMax(FAbs(FSub(canvas_pos[2], ref[2])), lo)
                    aspect == FDiv(orig_width, orig_height)
                IN  IF FLt(aspect, FDiv(new_width, new_height))
                    THEN <<new_width, FDiv(new_width, aspect)>>
                    ELSE <<FMul(new_height, aspect), new_height>>
          [] OTHER -> <<orig_width, orig_height>>

\* [scale_x, scale_y] of a Scaling step
ScaleFactors(orig_bounds, handle, canvas_pos) ==
    LET new == NewSize(orig_bounds, handle, canvas_pos)
    IN  <<FDiv(new[1], FSub(orig_bounds[2][1], orig_bounds[1][1])),
          FDiv(new[2], FSub(orig_bounds[2][2], orig_bounds[1][2]))>>

\* atan2(0, 0) is 0: the zero vector has the direction of (1, 0)
Direction(v) == IF v = <<F(0), F(0)>> THEN <<F(1), F(0)>> ELSE v

NormSq(v) == FAdd(FMul(v[1], v[1]), FMul(v[2], v[2]))

\* (cos, sin) of atan2(cur - center) - atan2(start - center) is a pair of
\* rationals exactly when |cur - center| * |start - center| is rational
RotationExact(drag_start, canvas_pos, center) ==
    LET a == Direction(<<FSub(drag_start[1], center[1]), FSub(drag_start[2], center[2])>>)
        c == Direction(<<FSub(canvas_pos[1], center[1]), FSub(canvas_pos[2], center[2])>>)
    IN  HasSqrt(FMul(NormSq(a), NormSq(c)))

RotationBetween(drag_start, canvas_pos, center) ==
    LET a == Direction(<<FSub(drag_start[1], center[1]), FSub(drag_start[2], center[2])>>)
        c == Direction(<<FSub(canvas_pos[1], center[1]), FSub(canvas_pos[2], center[2])>>)
        n == FSqrt(FMul(NormSq(a), NormSq(c)))
    IN  [cos |-> FDiv(FAdd(FMul(c[1], a[1]), FMul(c[2], a[2])), n),
         sin |-> FDiv(FSub(FMul(c[2], a[1]), FMul(c[1], a[2])), n)]

\* a Moving step that keeps the drag's first point as the previous point
MovingStepKeepStart(s, canvas_pos, delta, b) ==
    [s EXCEPT
        !.objects =
            IF b # None
            THEN transform_objects(s.objects, s.selected_objects,
                     <<F(1), F(1)>>, NoRotation, delta, Center(b[1]))
            ELSE s.objects]

\* the Moving arm of the dragged block; b is get_selection_bounds's answer
MovingStep(s, canvas_pos, delta, b) ==
    [s EXCEPT
        !.objects =
            IF b # None
            THEN transform_objects(s.objects, s.selected_objects,
                     <<F(1), F(1)>>, NoRotation, delta, Center(b[1]))
            ELSE s.objects,
        !.selection_drag_start = Some(canvas_pos)]

\* a Scaling or Rotating step that transforms the objects as the last step left them
RestoredStepIncremental(s, scale, rotation, center) ==
    [s EXCEPT !.objects =
        transform_objects(s.objects, s.selected_objects, scale, rotation,
                          <<F(0), F(0)>>, center)]

\* the Scaling and Rotating arms: restore the saved copies, then transform them
RestoredStep(s, scale, rotation, center) ==
    [s EXCEPT !.objects =
        transform_objects(RestoreLoop(s.objects, s.selection_saved_objects, 1),
                          s.selected_objects, scale, rotation,
                          <<F(0), F(0)>>, center)]

\* a marquee test that accepts every bounds b the marquee overlaps
MarqueeIntersects(rect, b) ==
    /\ FLe(FMin(rect[1][1], rect[2][1]), b[2][1])
    /\ FLe(b[1][1], FMax(rect[1][1], rect[2][1]))
    /\ FLe(FMin(rect[1][2], rect[2][2]), b[2][2])
    /\ FLe(b[1][2], FMax(rect[1][2], rect[2][2]))

\* the marquee (two opposite corners, in any order) fully contains the bounds b
MarqueeContains(rect, b) ==
    /\ FLe(FMin(rect[1][1], rect[2][1]), b[1][1])
    /\ FLe(b[2][1], FMax(rect[1][1], rect[2][1]))
    /\ FLe(FMin(rect[1][2], rect[2][2]), b[1][2])
    /\ FLe(b[2][2], FMax(rect[1][2], rect[2][2]))

\* a marquee loop that pushes the id of an object once for each of the two
\* corners of its bounds that lies in the rectangle
RECURSIVE MarqueeLoopPerCorner(_, _, _, _)
MarqueeLoopPerCorner(objs, rect, i, selected) ==
    IF i > Len(objs) THEN selected
    ELSE Strict(LAMBDA s : MarqueeLoopPerCorner(objs, rect, i + 1, s),
                IF MarqueeContains(rect, bounds(objs[i]))
                THEN selected \o <<objs[i].id, objs[i].id>> ELSE selected)

\* the ids pushed by the marquee loop of drag_stopped, in scene order
RECURSIVE MarqueeLoop(_, _, _, _)
MarqueeLoop(objs, rect, i, selected) ==
    IF i > Len(objs) THEN selected
    ELSE Strict(LAMBDA s : MarqueeLoop(objs, rect, i + 1, s),
                IF MarqueeContains(rect, bounds(objs[i]))
                THEN Append(selected, objs[i].id) ELSE selected)

\* a Selecting step that updates the selection as the marquee moves
SelectingStepLive(s, canvas_pos) ==
    IF s.selection_start # None
    THEN [s EXCEPT
            !.selection_rect = Some(<<s.selection_start[1], canvas_pos>>),
            !.selected_objects =
                MarqueeLoop(s.objects, <<s.selection_start[1], canvas_pos>>, 1, <<>>)]
    ELSE s

\* the Selecting arm: the marquee runs from the start point to the pointer
SelectingStep(s, canvas_pos) ==
    IF s.selection_start # None
    THEN [s EXCEPT !.selection_rect = Some(<<s.selection_start[1], canvas_pos>>)]
    ELSE s

SelectDragged(s, canvas_pos) ==
    CASE s.selection_mode = "Selecting" -> SelectingStep(s, canvas_pos)
      [] s.selection_mode = "Moving" ->
            IF s.selection_drag_start # None
            THEN MovingStep(s, canvas_pos,
                    <<FSub(canvas_pos[1], s.selection_drag_start[1][1]),
                      FSub(canvas_pos[2], s.selection_drag_start[1][2])>>,
                    get_selection_bounds(s.objects, s.selected_objects))
            ELSE s
      [] s.selection_mode = "Scaling" ->
            IF s.selection_original_bounds # None /\ s.selection_handle # None
            THEN RestoredStep(s,
                    ScaleFactors(s.selection_original_bounds[1],
                                 s.selection_handle[1], canvas_pos),
                    NoRotation, Center(s.selection_original_bounds[1]))
            ELSE s
      [] s.selection_mode = "Rotating" ->
            IF s.selection_drag_start # None /\ s.selection_original_bounds # None
            THEN RestoredStep(s, <<F(1), F(1)>>,
                    RotationBetween(s.selection_drag_start[1], canvas_pos,
                                    Center(s.selection_original_bounds[1])),
                    Center(s.selection_original_bounds[1]))
            ELSE s
      [] OTHER -> s

\* the marquee branch of drag_stopped
MarqueeStopped(s) ==
    IF s.selection_mode = "Selecting"
    THEN [s EXCEPT
            !.selected_objects =
                IF s.selection_rect # None
                THEN MarqueeLoop(s.objects, s.selection_rect[1], 1, <<>>)
                ELSE s.selected_objects,
            !.selection_rect = None,
            !.selection_start = None]
    ELSE s

SelectDragStopped(s) ==
    [MarqueeStopped(s) EXCEPT !.selection_mode = "None",
                              !.selection_drag_start = None,
                              !.selection_handle = None,
                              !.selection_saved_objects = <<>>]

\* the three blocks of the handler; each runs when its response flag is set
StartedBlock(flag, s, canvas_pos, zoom) ==
    IF flag THEN SelectDragStarted(s, canvas_pos, zoom) ELSE s

DraggedBlock(flag, s, canvas_pos) ==
    IF flag THEN SelectDragged(s, canvas_pos) ELSE s

StoppedBlock(flag, s) == IF flag THEN SelectDragStopped(s) ELSE s

handle_select_tool(s, drag_started, dragged, drag_stopped, canvas_pos, zoom) ==
    Strict(LAMBDA s1 :
               Strict(LAMBDA s2 : StoppedBlock(drag_stopped, s2),
                      DraggedBlock(dragged, s1, canvas_pos)),
           StartedBlock(drag_started, s, canvas_pos, zoom))

\* the stored points of an object, in a fixed order
PointSeq(obj) ==
    CASE obj.kind = "Stroke" -> obj.points
      [] obj.kind = "Line" -> <<obj.start, obj.end>>
      [] obj.kind = "Circle" -> <<obj.center>>
      [] obj.kind = "Rectangle" -> <<obj.min, obj.max>>
      [] obj.kind = "LatexFormula" -> <<obj.pos>>

MaxDenominator == 100

\* the exact arithmetic of the model stays within TLC's integers: a gesture
\* starts on a scene whose coordinates have denominators up to MaxDenominator
SceneInRange(objs) ==
    \A k \in 1..Len(objs) :
        \A j \in 1..Len(PointSeq(objs[k])) :
            /\ PointSeq(objs[k])[j][1][2] <= MaxDenominator
            /\ PointSeq(objs[k])[j][2][2] <= MaxDenominator

\* the dragged block of a frame can be computed in the model: in Rotating mode
\* the rotation must be a rational (cos, sin)
SelectStepExact(s, canvas_pos) ==
    (s.selection_mode = "Rotating" /\ s.selection_drag_start # None
        /\ s.selection_original_bounds # None)
    => RotationExact(s.selection_drag_start[1], canvas_pos,
                     Center(s.selection_original_bounds[1]))

----------------------------------------------------------------------------
(* app.rs: the events of the interaction loop.  egui reports a drag's first *)
(* frame with drag_started() and dragged() both true, every later frame of  *)
(* it with dragged() alone, and its release with drag_stopped() alone; the  *)
(* pointer position of each frame arrives already mapped to canvas space.   *)

\* a pointer drag on the canvas is in progress
dragging == pointer # None

ToolFields == <<is_drawing, current_stroke, draw_start_pos>>
SelectionFields ==
    <<selected_objects, selection_start, selection_rect, selection_mode,
      selection_drag_start, selection_original_bounds, selection_handle,
      selection_saved_objects>>
TextFields == <<editing_text, text_input, text_cursor_pos>>

Counted(field) == [count EXCEPT ![field] = @ + 1]

Tools == {"Brush", "Line", "Circle", "Square", "Eraser", "Select", "Text"}

\* handle_keyboard_shortcuts / render_toolbar: choose a tool
SelectTool(t) ==
    /\ t \in Tools
    /\ t # current_tool
    /\ current_tool' = t
    /\ UNCHANGED <<objects, undo_stack, canvas_zoom, canvas_offset, ToolFields, SelectionFields,
                   TextFields, next_id, pointer, count, limit>>

\* an undo that takes the oldest snapshot in place of the newest
UndoOldest ==
    /\ count.undos < limit.undos
    /\ IF undo_stack # <<>>
       THEN /\ objects' = undo_stack[1]
            /\ undo_stack' = Tail(undo_stack)
       ELSE UNCHANGED <<objects, undo_stack>>
    /\ count' = Counted("undos")
    /\ UNCHANGED <<current_tool, canvas_zoom, canvas_offset, ToolFields, SelectionFields,
                   TextFields, next_id, pointer, limit>>

\* an undo that also drops the selection and ends the gesture
UndoDeselects ==
    /\ count.undos < limit.undos
    /\ IF undo_stack # <<>>
       THEN /\ objects' = undo_stack[Len(undo_stack)]
            /\ undo_stack' = SubSeq(undo_stack, 1, Len(undo_stack) - 1)
       ELSE UNCHANGED <<objects, undo_stack>>
    /\ selected_objects' = <<>>
    /\ selection_mode' = "None"
    /\ count' = Counted("undos")
    /\ UNCHANGED <<current_tool, canvas_zoom, canvas_offset, ToolFields, selection_start,
                   selection_rect, selection_drag_start,
                   selection_original_bounds, selection_handle,
                   selection_saved_objects, TextFields, next_id, pointer, limit>>

\* undo, from Ctrl+Z or the toolbar button
Undo ==
    /\ count.undos < limit.undos
    /\ IF undo_stack # <<>>
       THEN /\ objects' = undo_stack[Len(undo_stack)]
            /\ undo_stack' = SubSeq(undo_stack, 1, Len(undo_stack) - 1)
       ELSE UNCHANGED <<objects, undo_stack>>
    /\ count' = Counted("undos")
    /\ UNCHANGED <<current_tool, canvas_zoom, canvas_offset, ToolFields, SelectionFields,
                   TextFields, next_id, pointer, limit>>

\* the toolbar's Clear All button
ClearAll ==
    /\ count.pushes < limit.pushes
    /\ undo_stack' = push_undo(undo_stack, objects)
    /\ objects' = <<>>
    /\ count' = Counted("pushes")
    /\ UNCHANGED <<current_tool, canvas_zoom, canvas_offset, ToolFields, SelectionFields,
                   TextFields, next_id, pointer, limit>>

(* handle_brush_tool *)

BrushDragStart(p) ==
    /\ current_tool = "Brush" /\ ~dragging
    /\ count.drags < limit.drags
    /\ is_drawing' = TRUE
    /\ current_stroke' = <<p, p>>       \* vec![p], then the dragged block pushes p
    /\ pointer' = Some(p)
    /\ count' = [count EXCEPT !.drags = @ + 1, !.steps = 0]
    /\ UNCHANGED <<objects, undo_stack, current_tool, canvas_zoom, canvas_offset, draw_start_pos,
                   SelectionFields, TextFields, next_id, limit>>

BrushDrag(p) ==
    /\ current_tool = "Brush" /\ dragging
    /\ count.steps < limit.steps
    /\ current_stroke' = IF is_drawing THEN Append(current_stroke, p)
                         ELSE current_stroke
    /\ count' = Counted("steps")
    /\ pointer' = Some(p)
    /\ UNCHANGED <<objects, undo_stack, current_tool, canvas_zoom, canvas_offset, is_drawing,
                   draw_start_pos, SelectionFields, TextFields, next_id, limit>>

\* a release that ends the drawing and keeps the points of the stroke
BrushDragStopKeepsStroke ==
    /\ current_tool = "Brush" /\ dragging
    /\ pointer' = None
    /\ IF is_drawing /\ Len(current_stroke) > 1
       THEN /\ count.pushes < limit.pushes
            /\ undo_stack' = push_undo(undo_stack, objects)
            /\ objects' = Append(objects,
                    Stroke(next_id, smooth_stroke(current_stroke), BLACK,
                           F(BRUSH_SIZE)))
            /\ next_id' = next_id + 1
            /\ count' = [count EXCEPT !.pushes = @ + 1, !.steps = 0]
       ELSE /\ UNCHANGED <<objects, undo_stack, next_id>>
            /\ count' = [count EXCEPT !.steps = 0]
    /\ is_drawing' = FALSE
    /\ UNCHANGED <<current_tool, canvas_zoom, canvas_offset, current_stroke,
                   draw_start_pos, SelectionFields, TextFields, limit>>

BrushDragStop ==
    /\ current_tool = "Brush" /\ dragging
    /\ pointer' = None
    /\ IF is_drawing /\ Len(current_stroke) > 1
       THEN /\ count.pushes < limit.pushes
            /\ undo_stack' = push_undo(undo_stack, objects)
            /\ objects' = Append(objects,
                    Stroke(next_id, smooth_stroke(current_stroke), BLACK,
                           F(BRUSH_SIZE)))
            /\ next_id' = next_id + 1
            /\ count' = [count EXCEPT !.pushes = @ + 1, !.steps = 0]
       ELSE /\ UNCHANGED <<objects, undo_stack, next_id>>
            /\ count' = [count EXCEPT !.steps = 0]
    /\ is_drawing' = FALSE
    /\ current_stroke' = IF is_drawing THEN <<>> ELSE current_stroke
    /\ UNCHANGED <<current_tool, canvas_zoom, canvas_offset, draw_start_pos, SelectionFields,
                   TextFields, limit>>

(* handle_shape_tool; its dragged block only paints a preview *)

ShapeTools == {"Line", "Circle", "Square"}

ShapeDragStart(p) ==
    /\ current_tool \in ShapeTools /\ ~dragging
    /\ count.drags < limit.drags
    /\ draw_start_pos' = Some(p)
    /\ pointer' = Some(p)
    /\ count' = [count EXCEPT !.drags = @ + 1, !.steps = 0]
    /\ UNCHANGED <<objects, undo_stack, current_tool, canvas_zoom, canvas_offset, is_drawing,
                   current_stroke, SelectionFields, TextFields, next_id, limit>>

DistSq(a, b) ==
    FAdd(FMul(FSub(b[1], a[1]), FSub(b[1], a[1])),
         FMul(FSub(b[2], a[2]), FSub(b[2], a[2])))

NewShape(tool, id, start_pos, canvas_pos) ==
    CASE tool = "Line" ->
            Line(id, start_pos, canvas_pos, BLACK, F(BRUSH_SIZE))
      [] tool = "Circle" ->
            Circle(id, start_pos, FSqrt(DistSq(start_pos, canvas_pos)), BLACK,
                   F(BRUSH_SIZE), FALSE)
      [] tool = "Square" ->
            Rectangle(id,
                <<FMin(start_pos[1], canvas_pos[1]), FMin(start_pos[2], canvas_pos[2])>>,
                <<FMax(start_pos[1], canvas_pos[1]), FMax(start_pos[2], canvas_pos[2])>>,
                BLACK, F(BRUSH_SIZE), FALSE)

ShapeDragStop(p) ==
    /\ current_tool \in ShapeTools /\ dragging
    /\ pointer' = None
    /\ IF draw_start_pos # None
       THEN /\ count.pushes < limit.pushes
            \* the radius of the model's circles is rational
            /\ current_tool = "Circle" => HasSqrt(DistSq(draw_start_pos[1], p))
            /\ undo_stack' = push_undo(undo_stack, objects)
            /\ objects' = Append(objects,
                    NewShape(current_tool, next_id, draw_start_pos[1], p))
            /\ next_id' = next_id + 1
            /\ count' = [count EXCEPT !.pushes = @ + 1, !.steps = 0]
       ELSE /\ UNCHANGED <<objects, undo_stack, next_id>>
            /\ count' = [count EXCEPT !.steps = 0]
    /\ draw_start_pos' = None
    /\ UNCHANGED <<current_tool, canvas_zoom, canvas_offset, is_drawing, current_stroke,
                   SelectionFields, TextFields, limit>>

(* handle_eraser_tool *)

\* an erase that fills the place of the erased object with the last object
\* of the scene (Vec::swap_remove)
EraseSwap(p) ==
    LET hit == find_object_at(objects, p)
        k == Find(objects, hit[1])
        n == Len(objects)
    IN  IF hit # None
        THEN /\ count.pushes < limit.pushes
             /\ undo_stack' = push_undo(undo_stack, objects)
             /\ objects' = SubSeq(IF k < n THEN [objects EXCEPT ![k] = objects[n]]
                                            ELSE objects, 1, n - 1)
             /\ count' = [count EXCEPT !.pushes = @ + 1,
                                       !.drags = IF dragging THEN @ ELSE @ + 1,
                                       !.steps = IF dragging THEN @ + 1 ELSE 0]
        ELSE /\ UNCHANGED <<objects, undo_stack>>
             /\ count' = [count EXCEPT !.drags = IF dragging THEN @ ELSE @ + 1,
                                       !.steps = IF dragging THEN @ + 1 ELSE 0]

\* an eraser that removes every object under the pointer
EraseAllUnder(p) ==
    LET hit == find_object_at(objects, p)
    IN  IF hit # None
        THEN /\ count.pushes < limit.pushes
             /\ undo_stack' = push_undo(undo_stack, objects)
             /\ objects' = SelectSeq(objects, LAMBDA obj : ~contains_point(obj, p))
             /\ count' = [count EXCEPT !.pushes = @ + 1,
                                       !.drags = IF dragging THEN @ ELSE @ + 1,
                                       !.steps = IF dragging THEN @ + 1 ELSE 0]
        ELSE /\ UNCHANGED <<objects, undo_stack>>
             /\ count' = [count EXCEPT !.drags = IF dragging THEN @ ELSE @ + 1,
                                       !.steps = IF dragging THEN @ + 1 ELSE 0]

Erase(p) ==
    LET hit == find_object_at(objects, p)
    IN  IF hit # None
        THEN /\ count.pushes < limit.pushes
             /\ undo_stack' = push_undo(undo_stack, objects)
             /\ objects' = SelectSeq(objects, LAMBDA obj : obj.id # hit[1])
             /\ count' = [count EXCEPT !.pushes = @ + 1,
                                       !.drags = IF dragging THEN @ ELSE @ + 1,
                                       !.steps = IF dragging THEN @ + 1 ELSE 0]
        ELSE /\ UNCHANGED <<objects, undo_stack>>
             /\ count' = [count EXCEPT !.drags = IF dragging THEN @ ELSE @ + 1,
                                       !.steps = IF dragging THEN @ + 1 ELSE 0]

EraserDragStart(p) ==
    /\ current_tool = "Eraser" /\ ~dragging
    /\ count.drags < limit.drags
    /\ Erase(p)
    /\ pointer' = Some(p)
    /\ UNCHANGED <<current_tool, canvas_zoom, canvas_offset, ToolFields, SelectionFields,
                   TextFields, next_id, limit>>

EraserDrag(p) ==
    /\ current_tool = "Eraser" /\ dragging
    /\ count.steps < limit.steps
    /\ Erase(p)
    /\ pointer' = Some(p)
    /\ UNCHANGED <<current_tool, canvas_zoom, canvas_offset, ToolFields, SelectionFields,
                   TextFields, next_id, limit>>

\* the release of a drag under a tool whose handler has no drag_stopped block
EraserDragStop ==
    /\ current_tool \in {"Eraser", "Text"} /\ dragging
    /\ pointer' = None
    /\ count' = [count EXCEPT !.steps = 0]
    /\ UNCHANGED <<objects, undo_stack, current_tool, canvas_zoom, canvas_offset, ToolFields,
                   SelectionFields, TextFields, next_id, limit>>

(* handle_select_tool *)

SelectFrame(drag_started, dragged, drag_stopped, p) ==
    /\ dragged =>
          SelectStepExact(StartedBlock(drag_started, SelectFields, p, canvas_zoom), p)
    /\ \E r \in {handle_select_tool(SelectFields, drag_started, dragged,
                                     drag_stopped, p, canvas_zoom)} :
          /\ objects' = r.objects
          /\ selected_objects' = r.selected_objects
          /\ selection_start' = r.selection_start
          /\ selection_rect' = r.selection_rect
          /\ selection_mode' = r.selection_mode
          /\ selection_drag_start' = r.selection_drag_start
          /\ selection_original_bounds' = r.selection_original_bounds
          /\ selection_handle' = r.selection_handle
          /\ selection_saved_objects' = r.selection_saved_objects

SelectDragStart(p) ==
    /\ current_tool = "Select" /\ ~dragging
    /\ count.drags < limit.drags
    /\ SceneInRange(objects)
    /\ SelectFrame(TRUE, TRUE, FALSE, p)
    /\ pointer' = Some(p)
    /\ count' = [count EXCEPT !.drags = @ + 1, !.steps = 0]
    /\ UNCHANGED <<undo_stack, current_tool, canvas_zoom, canvas_offset, ToolFields, TextFields,
                   next_id, limit>>

SelectDrag(p) ==
    /\ current_tool = "Select" /\ dragging
    /\ count.steps < limit.steps
    /\ SelectFrame(FALSE, TRUE, FALSE, p)
    /\ pointer' = Some(p)
    /\ count' = Counted("steps")
    /\ UNCHANGED <<undo_stack, current_tool, canvas_zoom, canvas_offset, ToolFields, TextFields,
                   next_id, limit>>

\* the drag_stopped block does not read the pointer position
SelectDragStop ==
    /\ current_tool = "Select" /\ dragging
    /\ SelectFrame(FALSE, FALSE, TRUE, <<F(0), F(0)>>)
    /\ pointer' = None
    /\ count' = [count EXCEPT !.steps = 0]
    /\ UNCHANGED <<undo_stack, current_tool, canvas_zoom, canvas_offset, ToolFields, TextFields,
                   next_id, limit>>

(* handle_text_tool and handle_text_editing *)

TextClick(p) ==
    /\ current_tool = "Text" /\ ~dragging
    /\ LET hit == find_object_at(objects, p)
           k == IF hit = None THEN 0 ELSE Find(objects, hit[1])
       IN  IF k # 0 /\ objects[k].kind = "LatexFormula"
           THEN /\ editing_text # hit \/ text_input # objects[k].formula
                /\ editing_text' = hit
                /\ text_input' = objects[k].formula
                /\ text_cursor_pos' = Len(objects[k].formula)
                /\ UNCHANGED <<objects, undo_stack, next_id, count>>
           ELSE /\ count.pushes < limit.pushes
                /\ undo_stack' = push_undo(undo_stack, objects)
                /\ objects' = Append(objects,
                        LatexFormula(next_id, p, <<>>, BLACK, None))
                /\ editing_text' = Some(next_id)
                /\ text_input' = <<>>
                /\ text_cursor_pos' = 0
                /\ next_id' = next_id + 1
                /\ count' = Counted("pushes")
    /\ UNCHANGED <<current_tool, canvas_zoom, canvas_offset, ToolFields, SelectionFields,
                   pointer, limit>>

\* egui::Event::Text: insert at the cursor
TextTyped(c, max_len) ==
    /\ editing_text # None
    /\ Len(text_input) < max_len
    /\ text_input' = SubSeq(text_input, 1, text_cursor_pos) \o <<c>>
                        \o SubSeq(text_input, text_cursor_pos + 1, Len(text_input))
    /\ text_cursor_pos' = text_cursor_pos + 1
    /\ UNCHANGED <<objects, undo_stack, current_tool, canvas_zoom, canvas_offset, ToolFields,
                   SelectionFields, editing_text, next_id, pointer, count, limit>>

(* render_objects *)

\* the characters of a formula text: "x" stands for one that MathJax renders,
\* "{" for one that makes convert_to_svg fail
FormulaChars == {"x", "{"}

\* LatexRenderer::get_or_create_texture, then texture.size_vec2(): the size of
\* the rendered formula, none when the formula does not render
TextureSize(formula) ==
    IF \E i \in 1..Len(formula) : formula[i] = "{"
    THEN None
    ELSE Some(<<F(30 * Len(formula)), F(20)>>)

\* the loop over the non-empty formulas: each formula glyph whose texture
\* exists gets the size of the texture as its cached size
Rendered(obj) ==
    IF obj.kind = "LatexFormula" /\ obj.formula # <<>>
          /\ TextureSize(obj.formula) # None
    THEN [obj EXCEPT !.cached_size = TextureSize(obj.formula)]
    ELSE obj

RenderObjects ==
    /\ count.steps < limit.steps
    /\ objects' = [k \in 1..Len(objects) |-> Rendered(objects[k])]
    /\ objects' # objects
    /\ count' = Counted("steps")
    /\ UNCHANGED <<undo_stack, current_tool, canvas_zoom, canvas_offset, ToolFields,
                   SelectionFields, TextFields, next_id, pointer, limit>>

\* a commit that keeps the cached size of the formula glyph
KeyEnterKeepSize ==
    /\ editing_text # None
    /\ LET k == Find(objects, editing_text[1])
       IN  objects' = IF k # 0 /\ objects[k].kind = "LatexFormula"
                      THEN [objects EXCEPT ![k].formula = text_input]
                      ELSE objects
    /\ editing_text' = None
    /\ text_input' = <<>>
    /\ text_cursor_pos' = 0
    /\ UNCHANGED <<undo_stack, current_tool, canvas_zoom, canvas_offset, ToolFields,
                   SelectionFields, next_id, pointer, count, limit>>

\* a commit that replaces the edited formula glyph by a newly made one
KeyEnterFresh ==
    /\ editing_text # None
    /\ LET k == Find(objects, editing_text[1])
       IN  objects' = IF k # 0 /\ objects[k].kind = "LatexFormula"
                      THEN [objects EXCEPT ![k].formula = text_input,
                                           ![k].cached_size = None,
                                           ![k].id = next_id]
                      ELSE objects
    /\ editing_text' = None
    /\ text_input' = <<>>
    /\ text_cursor_pos' = 0
    /\ UNCHANGED <<undo_stack, current_tool, canvas_zoom, canvas_offset, ToolFields,
                   SelectionFields, next_id, pointer, count, limit>>

KeyEnter ==
    /\ editing_text # None
    /\ LET k == Find(objects, editing_text[1])
       IN  objects' = IF k # 0 /\ objects[k].kind = "LatexFormula"
                      THEN [objects EXCEPT ![k].formula = text_input,
                                           ![k].cached_size = None]
                      ELSE objects
    /\ editing_text' = None
    /\ text_input' = <<>>
    /\ text_cursor_pos' = 0
    /\ UNCHANGED <<undo_stack, current_tool, canvas_zoom, canvas_offset, ToolFields,
                   SelectionFields, next_id, pointer, count, limit>>

KeyEscape ==
    /\ editing_text # None
    /\ editing_text' = None
    /\ text_input' = <<>>
    /\ text_cursor_pos' = 0
    /\ UNCHANGED <<objects, undo_stack, current_tool, canvas_zoom, canvas_offset, ToolFields,
                   SelectionFields, next_id, pointer, count, limit>>

----------------------------------------------------------------------------
(* The application from its constructed state (WhiteboardApp::default)      *)

Default ==
    /\ objects = <<>>
    /\ undo_stack = <<>>
    /\ current_tool = "Brush"
    /\ canvas_zoom = F(1)
    /\ canvas_offset = <<F(0), F(0)>>
    /\ is_drawing = FALSE
    /\ current_stroke = <<>>
    /\ draw_start_pos = None
    /\ selected_objects = <<>>
    /\ selection_start = None
    /\ selection_rect = None
    /\ selection_mode = "None"
    /\ selection_drag_start = None
    /\ selection_original_bounds = None
    /\ selection_handle = None
    /\ selection_saved_objects = <<>>
    /\ editing_text = None
    /\ text_input = <<>>
    /\ text_cursor_pos = 0
    /\ next_id = 1
    /\ pointer = None
    /\ count = [drags |-> 0, steps |-> 0, pushes |-> 0, undos |-> 0]

P(x, y) == <<F(x), F(y)>>

MaxDrags == 2
MaxSteps == 1
MaxPushes == 2
MaxUndos == 1
MaxText == 1

\* pointer positions of the drawing tools, of the Select tool, of the eraser
\* and of the text tool
DrawPts == {P(10, 10), P(50, 40)}
SelectPts == {P(0, 0), P(30, 20), P(60, 50)}
ErasePts == {P(30, 20), P(0, 0)}
TextPts == {P(20, 60)}

Init ==
    /\ Default
    /\ limit = [drags |-> MaxDrags, steps |-> MaxSteps, pushes |-> MaxPushes,
                undos |-> MaxUndos]

Next ==
    \/ \E t \in Tools : SelectTool(t)
    \/ Undo
    \/ ClearAll
    \/ \E p \in DrawPts : BrushDragStart(p)
    \/ \E p \in DrawPts : BrushDrag(p)
    \/ BrushDragStop
    \/ \E p \in DrawPts : ShapeDragStart(p)
    \/ \E p \in DrawPts : ShapeDragStop(p)
    \/ \E p \in ErasePts : EraserDragStart(p)
    \/ \E p \in ErasePts : EraserDrag(p)
    \/ EraserDragStop
    \/ \E p \in SelectPts : SelectDragStart(p)
    \/ \E p \in SelectPts : SelectDrag(p)
    \/ SelectDragStop
    \/ \E p \in TextPts : TextClick(p)
    \/ TextTyped("x", MaxText)
    \/ KeyEnter
    \/ KeyEscape
    \/ RenderObjects

Spec == Init /\ [][Next]_vars

----------------------------------------------------------------------------
(* The history alone: lines are drawn one after the other, then undone.     *)

MaxHistoryPushes == 60

HistoryFrom == P(10, 10)
HistoryTo == P(50, 40)

InitHistory ==
    /\ Default
    /\ limit = [drags |-> MaxHistoryPushes, steps |-> 0,
                pushes |-> MaxHistoryPushes, undos |-> HISTORY_MAX + 1]

NextHistory ==
    \/ count.undos = 0 /\ SelectTool("Line")
    \/ count.undos = 0 /\ ShapeDragStart(HistoryFrom)
    \/ count.undos = 0 /\ ShapeDragStop(HistoryTo)
    \/ Undo

SpecHistory == InitHistory /\ [][NextHistory]_vars

\* the scene after m lines were drawn from HistoryFrom to HistoryTo
HistoryScene(m) ==
    [i \in 1..m |-> Line(i, HistoryFrom, HistoryTo, BLACK, F(BRUSH_SIZE))]

\* C2: the undo stack never holds more than 50 snapshots, and while only
\* edits have happened it holds the most recent min(n, 50) of the n pushed
\* snapshots, oldest first: a push onto a full stack dropped the oldest.
C2_HistoryBounded ==
    /\ Len(undo_stack) <= HISTORY_MAX
    /\ count.undos = 0 =>
          /\ Len(undo_stack) =
                IF count.pushes < HISTORY_MAX THEN count.pushes ELSE HISTORY_MAX
          /\ \A i \in 1..Len(undo_stack) :
                undo_stack[i] = HistoryScene(count.pushes - Len(undo_stack) + i - 1)

\* 60 pushes have left exactly the 50 most recent snapshots
C2_Witness ==
    /\ count.pushes = MaxHistoryPushes /\ count.undos = 0
    /\ Len(undo_stack) = HISTORY_MAX
    /\ undo_stack[1] = HistoryScene(MaxHistoryPushes - HISTORY_MAX)

\* C3: an undo on a non-empty history makes the newest snapshot the scene
\* and removes exactly that snapshot; so after n edits, k undos (k at most n
\* and at most 50) leave the scene as it was before the last k edits.
C3_UndoLifo ==
    [][(count.undos' = count.undos + 1 /\ undo_stack # <<>>) =>
          /\ objects' = undo_stack[Len(undo_stack)]
          /\ undo_stack' = SubSeq(undo_stack, 1, Len(undo_stack) - 1)
          /\ objects' = HistoryScene(count.pushes - count.undos')]_vars

\* 50 edits, then 50 undos, and the scene is empty again
C3_Witness ==
    /\ count.pushes = HISTORY_MAX /\ count.undos = HISTORY_MAX
    /\ objects = <<>> /\ undo_stack = <<>>

----------------------------------------------------------------------------
(* The Select tool's gestures on a scene of five objects, one of each       *)
(* variant, drawn with the tools in this order; some of them were selected  *)
(* with a marquee.                                                          *)

GestureScenes ==
    LET s0 == <<>>
        s1 == Append(s0, NewShape("Square", 1, P(10, 10), P(50, 30)))
        s2 == Append(s1, NewShape("Circle", 2, P(80, 20), P(90, 20)))
        s3 == Append(s2, NewShape("Line", 3, P(10, 50), P(50, 70)))
        s4 == Append(s3, Stroke(4, smooth_stroke(<<P(70, 50), P(70, 50), P(90, 70)>>),
                                BLACK, F(BRUSH_SIZE)))
        s5 == Append(s4, LatexFormula(5, P(0, 20), <<>>, BLACK, None))
    IN  <<s0, s1, s2, s3, s4, s5>>

GestureScene == GestureScenes[Len(GestureScenes)]

GestureMarquees ==
    {<<P(0, 0), P(60, 40)>>, <<P(0, 0), P(100, 40)>>, <<P(0, 20), P(100, 60)>>,
     <<P(130, 130), P(0, 0)>>}

MaxGestureDrags == 2
MaxGestureSteps == 2

ZoomLevels == {F(1), F(2)}

StartPts == {P(30, 20), P(60, 20), P(45, 25), P(30, -20), P(100, 40), P(25, 45),
             P(50, 30)}
StepPts == {P(30, 60), P(60, 20), P(-20, 20), P(100, 60)}

InitGesture ==
    /\ objects = GestureScene
    /\ undo_stack = SubSeq(GestureScenes, 1, Len(GestureScenes) - 1)
    /\ current_tool = "Select"
    /\ canvas_zoom \in ZoomLevels
    /\ canvas_offset = <<F(0), F(0)>>
    /\ is_drawing = FALSE
    /\ current_stroke = <<>>
    /\ draw_start_pos = None
    /\ selected_objects \in
          {<<>>} \cup {MarqueeLoop(GestureScene, m, 1, <<>>) : m \in GestureMarquees}
    /\ selection_start = None
    /\ selection_rect = None
    /\ selection_mode = "None"
    /\ selection_drag_start = None
    /\ selection_original_bounds = None
    /\ selection_handle = None
    /\ selection_saved_objects = <<>>
    /\ editing_text = None
    /\ text_input = <<>>
    /\ text_cursor_pos = 0
    /\ next_id = Len(GestureScene) + 1
    /\ pointer = None
    /\ count = [drags |-> 0, steps |-> 0, pushes |-> 0, undos |-> 0]
    /\ limit = [drags |-> MaxGestureDrags, steps |-> MaxGestureSteps,
                pushes |-> 0, undos |-> 0]

NextGesture ==
    \/ \E p \in StartPts : SelectDragStart(p)
    \/ \E p \in StepPts : SelectDrag(p)
    \/ SelectDragStop

SpecGesture == InitGesture /\ [][NextGesture]_vars

\* the frame that starts a drag, a later frame of it, and its release
DragStartFrame == ~dragging /\ pointer' # None
DragFrame == dragging /\ pointer' # None
DragStopFrame == dragging /\ pointer' = None

\* C1: a Select-tool gesture that changes the scene has pushed the scene as it
\* was before the gesture, so that an undo right after it restores that
\* scene.  Stated for the first gesture on the prepared scene: once it has
\* changed the scene, the newest snapshot is the prepared scene.
C1_GesturePushesSnapshot ==
    (count.drags = 1 /\ objects # GestureScene) =>
        (undo_stack # <<>> /\ undo_stack[Len(undo_stack)] = GestureScene)

Resize == {"TopLeft", "TopRight", "BottomLeft", "BottomRight",
           "Top", "Bottom", "Left", "Right"}

\* where the handle sits on the bounds b
HandlePoint(b, handle, zoom) ==
    LET mid == Center(b)
    IN  CASE handle = "TopLeft"     -> <<b[1][1], b[1][2]>>
          [] handle = "TopRight"    -> <<b[2][1], b[1][2]>>
          [] handle = "BottomLeft"  -> <<b[1][1], b[2][2]>>
          [] handle = "BottomRight" -> <<b[2][1], b[2][2]>>
          [] handle = "Top"         -> <<mid[1], b[1][2]>>
          [] handle = "Bottom"      -> <<mid[1], b[2][2]>>
          [] handle = "Left"        -> <<b[1][1], mid[2]>>
          [] handle = "Right"       -> <<b[2][1], mid[2]>>
          [] handle = "Rotate"      -> <<mid[1], FSub(b[1][2], FDiv(F(ROTATE_PIXELS), zoom))>>

\* the handles of b that are under the point p
HandlesUnder(p, b, zoom) ==
    {h \in Resize \cup {"Rotate"} :
        /\ FLt(FAbs(FSub(p[1], HandlePoint(b, h, zoom)[1])), FDiv(F(HANDLE_PIXELS), zoom))
        /\ FLt(FAbs(FSub(p[2], HandlePoint(b, h, zoom)[2])), FDiv(F(HANDLE_PIXELS), zoom))}

\* the object of objs with the given id
ObjectWithId(objs, id) == objs[CHOOSE k \in 1..Len(objs) : objs[k].id = id]

\* the decision of a drag start at p on the selection with bounds b
StartDecision(p, b) ==
    IF selected_objects = <<>>
    THEN selection_mode' = "Selecting"
    ELSE IF HandlesUnder(p, b[1], canvas_zoom) # {}
    THEN /\ selection_handle' # None
         /\ selection_handle'[1] \in HandlesUnder(p, b[1], canvas_zoom)
         /\ selection_mode' =
                IF selection_handle'[1] = "Rotate" THEN "Rotating" ELSE "Scaling"
         /\ selection_original_bounds' = b
         /\ selection_saved_objects' =
                [i \in 1..Len(selected_objects) |->
                    ObjectWithId(objects, selected_objects[i])]
         /\ selected_objects' = selected_objects
    ELSE IF InsideBounds(p, b[1])
    THEN selection_mode' = "Moving" /\ selected_objects' = selected_objects
    ELSE selection_mode' = "Selecting" /\ selected_objects' = <<>>

\* C4: a drag start with the Select tool enters Selecting when nothing is
\* selected; else Rotating or Scaling when a handle of the selection's bounds
\* is under the point, capturing the bounds, the handle and a copy of every
\* selected object; else Moving when the point is inside the bounds (edges
\* inclusive), the selection unchanged; else it clears the selection and
\* enters Selecting.  The handle test comes before the inside test.
C4_DragStartDecision ==
    [][DragStartFrame =>
          StartDecision(pointer'[1],
                        get_selection_bounds(objects, selected_objects))]_vars

\* a drag started on a handle that lies inside the bounds
C4_Witness ==
    /\ dragging /\ count.steps = 0
    /\ selection_mode = "Scaling"
    /\ selection_original_bounds # None
    /\ InsideBounds(pointer[1], selection_original_bounds[1])

\* C5: the release of a Select-tool drag leaves the mode None and every piece
\* of transient gesture state cleared.
C5_GestureEndClears ==
    [][DragStopFrame =>
          /\ selection_mode' = "None"
          /\ selection_saved_objects' = <<>>
          /\ selection_drag_start' = None
          /\ selection_handle' = None
          /\ selection_original_bounds' = None
          /\ selection_start' = None
          /\ selection_rect' = None]_vars

\* the scene objs with the copy of every saved object transformed in its place
SavedImage(objs, saved, scale, rotation, center) ==
    [k \in 1..Len(objs) |->
        IF \E i \in 1..Len(saved) : saved[i].id = objs[k].id
        THEN TransformObject(ObjectWithId(saved, objs[k].id), scale, rotation,
                             <<F(0), F(0)>>, center)
        ELSE objs[k]]

\* a frame of a drag that runs the dragged block in the given modes
StepIn(modes) == pointer' # None /\ selection_mode' \in modes

\* C6: after every drag step of a Scaling or Rotating gesture the scene is
\* the saved pre-gesture objects under one transform that is computed from
\* the original bounds, the handle, the gesture's start point and the
\* current point; the scene the previous step left does not enter.
C6_PathIndependent ==
    [][StepIn({"Scaling", "Rotating"}) =>
          objects' =
            SavedImage(objects, selection_saved_objects',
                IF selection_mode' = "Scaling"
                THEN ScaleFactors(selection_original_bounds'[1],
                                  selection_handle'[1], pointer'[1])
                ELSE <<F(1), F(1)>>,
                IF selection_mode' = "Rotating"
                THEN RotationBetween(selection_drag_start'[1], pointer'[1],
                                     Center(selection_original_bounds'[1]))
                ELSE NoRotation,
                Center(selection_original_bounds'[1]))]_vars

\* a second drag step of a Scaling or Rotating gesture, taken from a scene that
\* the first step has changed
C6_Witness ==
    /\ selection_mode \in {"Scaling", "Rotating"} /\ count.steps = 2
    /\ objects # GestureScene
    /\ RestoreLoop(objects, selection_saved_objects, 1) = GestureScene

\* the ids of the objects whose bounds lie inside the normalized marquee
InMarquee(objs, from, to) ==
    {objs[k].id : k \in
        {k \in 1..Len(objs) :
            /\ FLe(FMin(from[1], to[1]), bounds(objs[k])[1][1])
            /\ FLe(FMin(from[2], to[2]), bounds(objs[k])[1][2])
            /\ FLe(bounds(objs[k])[2][1], FMax(from[1], to[1]))
            /\ FLe(bounds(objs[k])[2][2], FMax(from[2], to[2]))}}

\* C7: the release of a Selecting gesture whose marquee runs from the start
\* point to the last drag point makes the selection exactly the objects
\* whose bounds lie fully inside the normalized marquee, each id once.
C7_MarqueeContainment ==
    [][(DragStopFrame /\ selection_mode = "Selecting") =>
          /\ selection_rect = Some(<<selection_start[1], pointer[1]>>)
          /\ {selected_objects'[i] : i \in 1..Len(selected_objects')} =
                InMarquee(objects, selection_start[1], pointer[1])
          /\ Len(selected_objects') =
                Cardinality(InMarquee(objects, selection_start[1], pointer[1]))]_vars

\* a marquee has selected the circle and left out the rectangle and the
\* formula, which it only overlaps
C7_Witness ==
    /\ ~dragging /\ count.drags > 0
    /\ selected_objects = <<2>>

\* the object obj displaced by delta, its size unchanged
Moved(obj, delta) ==
    LET M(pos) == <<FAdd(pos[1], delta[1]), FAdd(pos[2], delta[2])>>
    IN  CASE obj.kind = "Stroke" ->
                [obj EXCEPT !.points = [i \in 1..Len(obj.points) |-> M(obj.points[i])]]
          [] obj.kind = "Line" -> [obj EXCEPT !.start = M(@), !.end = M(@)]
          [] obj.kind = "Circle" -> [obj EXCEPT !.center = M(@)]
          [] obj.kind = "Rectangle" -> [obj EXCEPT !.min = M(@), !.max = M(@)]
          [] obj.kind = "LatexFormula" -> [obj EXCEPT !.pos = M(@)]

\* the point before this frame's: the previous drag point, or the start point
PreviousPoint == IF dragging THEN selection_drag_start[1] ELSE pointer'[1]

\* C8: a drag step in Moving mode displaces every selected object by
\* (current point - previous drag point), leaves every other object and
\* every size alone, and makes the current point the previous drag point;
\* so the displacements of a gesture add up to (last point - start point).
C8_MoveTranslates ==
    [][StepIn({"Moving"}) =>
          /\ objects' =
                [k \in 1..Len(objects) |->
                    IF \E i \in 1..Len(selected_objects) :
                          selected_objects[i] = objects[k].id
                    THEN Moved(objects[k],
                               <<FSub(pointer'[1][1], PreviousPoint[1]),
                                 FSub(pointer'[1][2], PreviousPoint[2])>>)
                    ELSE objects[k]]
          /\ selection_drag_start' = pointer']_vars

\* the rectangle and the circle were moved away and back again: the scene is
\* the prepared scene, the pointer is back on the gesture's start point
C8_Witness ==
    /\ selection_mode = "Moving" /\ count.drags = 1 /\ count.steps = 2
    /\ selected_objects = <<1, 2>>
    /\ pointer = Some(P(60, 20))
    /\ objects = GestureScene

\* the offset of p from the edge opposite to an edge handle, towards the handle
EdgeOffset(b, handle, p) ==
    CASE handle = "Right"  -> FSub(p[1], b[1][1])
      [] handle = "Left"   -> FSub(b[2][1], p[1])
      [] handle = "Bottom" -> FSub(p[2], b[1][2])
      [] handle = "Top"    -> FSub(b[2][2], p[2])

\* the scale factors of an edge handle whose axis gets the given extent
EdgeScale(b, handle, extent) ==
    IF handle \in {"Left", "Right"}
    THEN <<FDiv(FMax(extent, F(MIN_EXTENT)), FSub(b[2][1], b[1][1])), F(1)>>
    ELSE <<F(1), FDiv(FMax(extent, F(MIN_EXTENT)), FSub(b[2][2], b[1][2]))>>

EdgeStep == StepIn({"Scaling"}) /\ selection_handle'[1] \in {"Left", "Right", "Top", "Bottom"}

\* C9: a Scaling step with an edge handle scales the saved objects on the
\* handle's axis alone, to the extent max(offset, 10), where offset is the
\* signed offset of the current point from the opposite edge of the original
\* bounds, counted towards the handle's side; the other axis has scale 1.
C9_EdgeScaleSigned ==
    [][EdgeStep =>
          objects' =
            SavedImage(objects, selection_saved_objects',
                EdgeScale(selection_original_bounds'[1], selection_handle'[1],
                    EdgeOffset(selection_original_bounds'[1],
                               selection_handle'[1], pointer'[1])),
                NoRotation, Center(selection_original_bounds'[1]))]_vars

\* C9 as stated: the extent is the distance of the current point from the
\* opposite edge, floored at 10.
C9_EdgeScaleDistance ==
    [][EdgeStep =>
          objects' =
            SavedImage(objects, selection_saved_objects',
                EdgeScale(selection_original_bounds'[1], selection_handle'[1],
                    FAbs(EdgeOffset(selection_original_bounds'[1],
                                    selection_handle'[1], pointer'[1]))),
                NoRotation, Center(selection_original_bounds'[1]))]_vars

\* an edge handle dragged across the opposite edge by more than 10
C9_Witness ==
    /\ selection_mode = "Scaling" /\ dragging
    /\ selection_handle \in {Some("Left"), Some("Right"), Some("Top"), Some("Bottom")}
    /\ FLt(EdgeOffset(selection_original_bounds[1], selection_handle[1], pointer[1]),
           F(-MIN_EXTENT))

\* the point sp of a saved object lay on the reference of the handle, and np
\* is where the step has put it: on the reference edge it keeps that edge's
\* coordinate, on the reference corner it keeps both
KeepsReference(b, handle, sp, np) ==
    CASE handle = "Right"       -> sp[1] = b[1][1] => np[1] = sp[1]
      [] handle = "Left"        -> sp[1] = b[2][1] => np[1] = sp[1]
      [] handle = "Bottom"      -> sp[2] = b[1][2] => np[2] = sp[2]
      [] handle = "Top"         -> sp[2] = b[2][2] => np[2] = sp[2]
      [] handle = "BottomRight" -> sp = <<b[1][1], b[1][2]>> => np = sp
      [] handle = "BottomLeft"  -> sp = <<b[2][1], b[1][2]>> => np = sp
      [] handle = "TopRight"    -> sp = <<b[1][1], b[2][2]>> => np = sp
      [] handle = "TopLeft"     -> sp = <<b[2][1], b[2][2]>> => np = sp

\* C10: after every drag step of a Scaling gesture, each point of a selected
\* object that lay on the reference edge (edge handle) or on the reference
\* corner (corner handle) of the original bounds is where it was.
C10_ReferenceFixed ==
    [][StepIn({"Scaling"}) =>
          \A i \in 1..Len(selection_saved_objects') :
            \A j \in 1..Len(PointSeq(selection_saved_objects'[i])) :
              KeepsReference(selection_original_bounds'[1], selection_handle'[1],
                  PointSeq(selection_saved_objects'[i])[j],
                  PointSeq(ObjectWithId(objects', selection_saved_objects'[i].id))[j])]_vars

Corners == {"TopLeft", "TopRight", "BottomLeft", "BottomRight"}

\* the corner of b diagonally opposite to a corner handle
OppositeCorner(b, handle) ==
    CASE handle = "TopLeft"     -> <<b[2][1], b[2][2]>>
      [] handle = "TopRight"    -> <<b[1][1], b[2][2]>>
      [] handle = "BottomLeft"  -> <<b[2][1], b[1][2]>>
      [] handle = "BottomRight" -> <<b[1][1], b[1][2]>>

\* the distance of p from the opposite corner on the axis k, floored at 10
CornerExtent(b, handle, p, k) ==
    FMax(FAbs(FSub(p[k], OppositeCorner(b, handle)[k])), F(MIN_EXTENT))

OrigWidth(b) == FSub(b[2][1], b[1][1])
OrigHeight(b) == FSub(b[2][2], b[1][2])

\* the box of the original proportions that has the width w or the height h,
\* whichever of the two boxes is the larger
Proportional(b, w, h) ==
    IF FLe(h, FDiv(w, FDiv(OrigWidth(b), OrigHeight(b))))
    THEN <<w, FDiv(w, FDiv(OrigWidth(b), OrigHeight(b)))>>
    ELSE <<FMul(h, FDiv(OrigWidth(b), OrigHeight(b))), h>>

CornerSize(b, handle, p) ==
    Proportional(b, CornerExtent(b, handle, p, 1), CornerExtent(b, handle, p, 2))

CornerStep == StepIn({"Scaling"}) /\ selection_handle'[1] \in Corners

\* the statement of C11 for the original bounds b, the handle and the point p
CornerProportional(b, handle, p) ==
    /\ FLe(CornerExtent(b, handle, p, 1), CornerSize(b, handle, p)[1])
    /\ FLe(CornerExtent(b, handle, p, 2), CornerSize(b, handle, p)[2])
    /\ FDiv(CornerSize(b, handle, p)[1], CornerSize(b, handle, p)[2]) =
          FDiv(OrigWidth(b), OrigHeight(b))
    /\ FDiv(CornerSize(b, handle, p)[1], OrigWidth(b)) =
          FDiv(CornerSize(b, handle, p)[2], OrigHeight(b))
    /\ objects' =
          SavedImage(objects, selection_saved_objects',
              <<FDiv(CornerSize(b, handle, p)[1], OrigWidth(b)),
                FDiv(CornerSize(b, handle, p)[2], OrigHeight(b))>>,
              NoRotation, Center(b))

\* C11: a Scaling step with a corner handle measures the new width and the
\* new height from the diagonally opposite corner of the original bounds,
\* floors each at 10, and enlarges the smaller of the two to the original
\* proportions; the saved objects are scaled by the resulting factors, which
\* are equal, and new width / new height = original width / original height.
C11_CornerProportional ==
    [][CornerStep =>
          CornerProportional(selection_original_bounds'[1], selection_handle'[1],
                             pointer'[1])]_vars

\* width / height of the box b
Ratio(b) == FDiv(OrigWidth(b), OrigHeight(b))

\* C12: after a Scaling step with a corner handle the aggregate bounds of the
\* selected objects have the width / height ratio of the original bounds
\* captured at the gesture's start.
C12_AspectPreserved ==
    [][CornerStep =>
          Ratio(get_selection_bounds(objects', selected_objects')[1]) =
              Ratio(selection_original_bounds'[1])]_vars

\* the gesture of the example: the rectangle (10,10)-(50,30) of the prepared
\* scene selected alone at zoom 1, its BottomRight handle pressed at (50,30)
ExampleGesture ==
    /\ dragging /\ canvas_zoom = F(1)
    /\ selected_objects = <<1>>
    /\ selection_saved_objects = <<GestureScene[1]>>
    /\ selection_mode = "Scaling"
    /\ selection_handle = Some("BottomRight")
    /\ selection_drag_start = Some(P(50, 30))

\* C13: in the example gesture the drag to (100,60) computes the new size
\* 90 x 45 and leaves the rectangle as the box (10,10)-(100,55).
C13_ExampleBox ==
    [][(ExampleGesture /\ pointer' = Some(P(100, 60))) =>
          /\ NewSize(selection_original_bounds'[1], "BottomRight", P(100, 60)) =
                <<F(90), F(45)>>
          /\ ObjectWithId(objects', 1).min = P(10, 10)
          /\ ObjectWithId(objects', 1).max = P(100, 55)]_vars

----------------------------------------------------------------------------
(* The geometry functions of models.rs, canvas.rs and selection.rs, applied  *)
(* to the prepared scene and to the scenes that transform_objects makes of it *)

MaxTransforms == 2

\* id lists: empty, of resolving ids, and with the id 7 that no object has
GeometrySelections ==
    {<<>>, <<2>>, <<5>>, <<4, 1>>, <<7>>, <<2, 7, 5>>, <<1, 2, 3, 4, 5>>}

\* arguments of transform_objects: scale, rotation as (cos, sin), translation
GeometryScales == {<<F(1), F(1)>>, <<F(2), Q(1, 2)>>, <<Q(1, 2), F(3)>>}
GeometryRotations ==
    {NoRotation, [cos |-> F(0), sin |-> F(1)], [cos |-> Q(3, 5), sin |-> Q(4, 5)]}
GeometryTranslations == {<<F(0), F(0)>>, <<F(10), F(-5)>>}
GeometryCenter == P(50, 40)

\* points handed to contains_point and find_object_at
ProbePts == {P(30, 20), P(51, 31), P(52, 20), P(80, 20), P(90, 50), P(200, 200)}

InitGeometry ==
    /\ objects = GestureScene
    /\ undo_stack = <<>>
    /\ current_tool = "Select"
    /\ canvas_zoom = F(1)
    /\ canvas_offset = <<F(0), F(0)>>
    /\ is_drawing = FALSE
    /\ current_stroke = <<>>
    /\ draw_start_pos = None
    /\ selected_objects \in GeometrySelections
    /\ selection_start = None
    /\ selection_rect = None
    /\ selection_mode = "None"
    /\ selection_drag_start = None
    /\ selection_original_bounds = None
    /\ selection_handle = None
    /\ selection_saved_objects = <<>>
    /\ editing_text = None
    /\ text_input = <<>>
    /\ text_cursor_pos = 0
    /\ next_id = Len(GestureScene) + 1
    /\ pointer = None
    /\ count = [drags |-> 0, steps |-> 0, pushes |-> 0, undos |-> 0]
    /\ limit = [drags |-> 0, steps |-> MaxTransforms, pushes |-> 0, undos |-> 0]

\* transform_objects applied to the scene and the id list
ApplyTransform(scale, rotation, translation) ==
    /\ count.steps < limit.steps
    /\ objects' = transform_objects(objects, selected_objects, scale, rotation,
                                    translation, GeometryCenter)
    /\ count' = Counted("steps")
    /\ UNCHANGED <<undo_stack, current_tool, canvas_zoom, canvas_offset, ToolFields,
                   SelectionFields, TextFields, next_id, pointer, limit>>

\* the pointer is over the canvas position p
PointAt(p) ==
    /\ pointer # Some(p)
    /\ pointer' = Some(p)
    /\ UNCHANGED <<objects, undo_stack, current_tool, canvas_zoom, canvas_offset, ToolFields,
                   SelectionFields, TextFields, next_id, count, limit>>

NextGeometry ==
    \/ \E scale \in GeometryScales, rotation \in GeometryRotations,
          translation \in GeometryTranslations :
          ApplyTransform(scale, rotation, translation)
    \/ \E p \in ProbePts : PointAt(p)

SpecGeometry == InitGeometry /\ [][NextGeometry]_vars

\* subtract the center, rotate, scale per axis, add the center, add the
\* translation
GenericPoint(p, scale, rotation, translation, center) ==
    LET x == FSub(p[1], center[1])
        y == FSub(p[2], center[2])
        rx == FSub(FMul(x, rotation.cos), FMul(y, rotation.sin))
        ry == FAdd(FMul(x, rotation.sin), FMul(y, rotation.cos))
    IN  <<FAdd(FAdd(FMul(rx, scale[1]), center[1]), translation[1]),
          FAdd(FAdd(FMul(ry, scale[2]), center[2]), translation[2])>>

\* the id is in the id list
Selected(id) == \E i \in 1..Len(selected_objects) : selected_objects[i] = id

\* what a transform makes of the selected circles and formula glyphs
CircleFormulaImage(scale, rotation, translation) ==
    /\ Len(objects') = Len(objects)
    /\ \A k \in 1..Len(objects) :
          /\ (objects[k].kind = "Circle" /\ Selected(objects[k].id)) =>
                objects'[k] =
                    [objects[k] EXCEPT
                        !.center = GenericPoint(@, scale, rotation, translation,
                                                GeometryCenter),
                        !.radius = FMul(@, FMax(scale[1], scale[2]))]
          /\ (objects[k].kind = "LatexFormula" /\ Selected(objects[k].id)) =>
                objects'[k] =
                    [objects[k] EXCEPT
                        !.pos = GenericPoint(@, scale, rotation, translation,
                                             GeometryCenter)]

TransformStep == count.steps' = count.steps + 1

\* C14: a transform with per-axis scale, rotation and translation maps the
\* center of a selected circle by the generic point transform and multiplies
\* its radius by the larger scale factor; of a selected formula glyph it
\* changes the anchor position by the generic point transform and nothing else.
C14_CircleFormulaTransform ==
    [][TransformStep =>
          \E scale \in GeometryScales, rotation \in GeometryRotations,
             translation \in GeometryTranslations :
             /\ objects' = transform_objects(objects, selected_objects, scale,
                                             rotation, translation, GeometryCenter)
             /\ CircleFormulaImage(scale, rotation, translation)]_vars

\* the circle and the formula glyph after a transform of unequal scale
\* factors: the radius 10 has become 30, the anchor has moved
C14_Witness ==
    /\ count.steps = 1 /\ selected_objects = <<2, 7, 5>>
    /\ objects[2].radius = F(30)
    /\ objects[5].pos # GestureScene[5].pos
    /\ [objects[5] EXCEPT !.pos = GestureScene[5].pos] = GestureScene[5]

\* the smallest box that holds the points of the set S
BoxOf(S) ==
    <<<<Least({q[1] : q \in S}), Least({q[2] : q \in S})>>,
      <<Greatest({q[1] : q \in S}), Greatest({q[2] : q \in S})>>>>

\* the tight geometric extent of a stroke, line, circle or rectangle
TightExtent(obj) ==
    CASE obj.kind = "Stroke" -> BoxOf({obj.points[i] : i \in 1..Len(obj.points)})
      [] obj.kind = "Line" -> BoxOf({obj.start, obj.end})
      [] obj.kind = "Rectangle" -> BoxOf({obj.min, obj.max})
      [] obj.kind = "Circle" ->
            <<<<FSub(obj.center[1], obj.radius), FSub(obj.center[2], obj.radius)>>,
              <<FAdd(obj.center[1], obj.radius), FAdd(obj.center[2], obj.radius)>>>>

\* the box b grown by d on every side
Expanded(b, d) ==
    <<<<FSub(b[1][1], d), FSub(b[1][2], d)>>, <<FAdd(b[2][1], d), FAdd(b[2][2], d)>>>>

\* the bounds the claim C15 gives the object
ExtentBounds(obj) ==
    IF obj.kind = "LatexFormula"
    THEN <<obj.pos,
           IF obj.cached_size = None
           THEN <<FAdd(obj.pos[1], F(100)), FAdd(obj.pos[2], F(40))>>
           ELSE <<FAdd(obj.pos[1], obj.cached_size[1][1]),
                  FAdd(obj.pos[2], obj.cached_size[1][2])>>>>
    ELSE Expanded(TightExtent(obj), FDiv(obj.width, F(2)))

\* C15: bounds() of a line, rectangle, circle or non-empty stroke is its tight
\* geometric extent grown by half the stroke width on every side, bounds() of
\* a formula glyph is the box from its anchor to anchor + cached size, or
\* anchor + (100,40) without a cached size, and contains_point(p) holds
\* exactly when p lies in bounds(), edges included.
C15_BoundsExtent ==
    \A k \in 1..Len(objects) :
        /\ (objects[k].kind = "Stroke" => objects[k].points # <<>>) =>
              bounds(objects[k]) = ExtentBounds(objects[k])
        /\ \A p \in ProbePts :
              contains_point(objects[k], p) <=>
                  /\ FLe(bounds(objects[k])[1][1], p[1])
                  /\ FLe(p[1], bounds(objects[k])[2][1])
                  /\ FLe(bounds(objects[k])[1][2], p[2])
                  /\ FLe(p[2], bounds(objects[k])[2][2])

\* the positions in the scene of the objects that contain the point p
Hits(p) == {k \in 1..Len(objects) : contains_point(objects[k], p)}

\* C16: find_object_at(p) returns the id of the last object in scene order
\* whose contains_point(p) holds, and returns none exactly when no object of
\* the scene contains p.
C16_TopmostHit ==
    \A p \in ProbePts :
        /\ find_object_at(objects, p) = None <=> Hits(p) = {}
        /\ Hits(p) # {} =>
              \E k \in Hits(p) :
                  /\ \A j \in Hits(p) : j <= k
                  /\ find_object_at(objects, p) = Some(objects[k].id)

\* the pointer is over two objects, the one below them in scene order is not
\* the answer, and another probe point is over no object
C16_Witness ==
    /\ count.steps = 1
    /\ \E p \in ProbePts :
          /\ pointer = Some(p)
          /\ Cardinality(Hits(p)) >= 2
          /\ \E k \in Hits(p) :
                /\ k < Len(objects)
                /\ find_object_at(objects, p) = Some(objects[k].id)
    /\ \E q \in ProbePts : find_object_at(objects, q) = None

\* the bounds of the objects of the scene that the ids of the list resolve to
ResolvedBounds(ids) ==
    {bounds(objects[k]) : k \in {j \in 1..Len(objects) :
                                    \E i \in 1..Len(ids) : ids[i] = objects[j].id}}

\* min of all mins, max of all maxes of a non-empty set of boxes
UnionBox(B) ==
    <<<<Least({b[1][1] : b \in B}), Least({b[1][2] : b \in B})>>,
      <<Greatest({b[2][1] : b \in B}), Greatest({b[2][2] : b \in B})>>>>

\* C17: get_selection_bounds returns no bounds exactly when the id list is
\* empty, and otherwise the union box (min of all mins, max of all maxes) of
\* bounds() of every id of the list that resolves to an object of the scene.
C17_AggregateBounds ==
    \A ids \in GeometrySelections :
        /\ get_selection_bounds(objects, ids) = None <=> ids = <<>>
        /\ ResolvedBounds(ids) # {} =>
              get_selection_bounds(objects, ids) = Some(UnionBox(ResolvedBounds(ids)))

\* the selection holds two ids that resolve around one that does not, and its
\* bounds after a transform are those of neither object alone
C17_Witness ==
    /\ count.steps = 1
    /\ selected_objects = <<2, 7, 5>>
    /\ Cardinality(ResolvedBounds(selected_objects)) = 2
    /\ \E b \in {get_selection_bounds(objects, selected_objects)} :
          /\ b = Some(UnionBox(ResolvedBounds(selected_objects)))
          /\ b[1] \notin ResolvedBounds(selected_objects)
    /\ get_selection_bounds(objects, <<>>) = None

\* the ids an id list may be extended by: those of the scene and two of no object
ExtraIds == 1..7

\* the box a lies within the box b: b reaches at least as far on every side
Within(a, b) ==
    /\ FLe(b[1][1], a[1][1]) /\ FLe(b[1][2], a[1][2])
    /\ FLe(a[2][1], b[2][1]) /\ FLe(a[2][2], b[2][2])

\* C18: adding an id x to a non-empty id list S never shrinks the aggregate
\* bounds: the box returned for S plus x has min <= the min for S and
\* max >= the max for S on both axes.
C18_BoundsMonotone ==
    \A ids \in GeometrySelections \ {<<>>} : \A x \in ExtraIds :
        Within(get_selection_bounds(objects, ids)[1],
               get_selection_bounds(objects, Append(ids, x))[1])

\* after a transform the selection's box grows strictly when one more object
\* is added to it, and stays as it is when an id of no object is added
C18_Witness ==
    /\ count.steps = 1
    /\ selected_objects = <<4, 1>>
    /\ \E b \in {get_selection_bounds(objects, selected_objects)[1]} :
          /\ \E x \in ExtraIds :
                \E c \in {get_selection_bounds(objects, Append(selected_objects, x))[1]} :
                    /\ Within(b, c)
                    /\ FLt(c[1][1], b[1][1])
                    /\ FLt(b[2][2], c[2][2])
          /\ get_selection_bounds(objects, Append(selected_objects, 7)) = Some(b)

-----------------------------------------------------------------------------
(* Selections whose ids have left the scene: Select gestures on the         *)
(* prepared scene, with an undo, a Clear All or an erase before or in the   *)
(* middle of them; none of the three touches selected_objects.              *)

MaxDanglingDrags == 2
MaxDanglingSteps == 2
MaxDanglingPushes == 1
MaxDanglingUndos == 1

DanglingStartPts == {P(30, 20), P(100, 40), P(30, -20), P(0, 0)}
DanglingStepPts == {P(-20, 20), P(100, 60)}
DanglingErasePts == {P(80, 20), P(30, 15)}

InitDangling ==
    /\ objects = GestureScene
    /\ undo_stack = SubSeq(GestureScenes, 1, Len(GestureScenes) - 1)
    /\ current_tool = "Select"
    /\ canvas_zoom = F(1)
    /\ canvas_offset = <<F(0), F(0)>>
    /\ is_drawing = FALSE
    /\ current_stroke = <<>>
    /\ draw_start_pos = None
    /\ selected_objects \in
          {<<>>} \cup {MarqueeLoop(GestureScene, m, 1, <<>>) : m \in GestureMarquees}
    /\ selection_start = None
    /\ selection_rect = None
    /\ selection_mode = "None"
    /\ selection_drag_start = None
    /\ selection_original_bounds = None
    /\ selection_handle = None
    /\ selection_saved_objects = <<>>
    /\ editing_text = None
    /\ text_input = <<>>
    /\ text_cursor_pos = 0
    /\ next_id = Len(GestureScene) + 1
    /\ pointer = None
    /\ count = [drags |-> 0, steps |-> 0, pushes |-> 0, undos |-> 0]
    /\ limit = [drags |-> MaxDanglingDrags, steps |-> MaxDanglingSteps,
                pushes |-> MaxDanglingPushes, undos |-> MaxDanglingUndos]

NextDangling ==
    \/ \E p \in DanglingStartPts : SelectDragStart(p)
    \/ \E p \in DanglingStepPts : SelectDrag(p)
    \/ SelectDragStop
    \/ Undo
    \/ ClearAll
    \/ \E t \in {"Eraser", "Select"} : SelectTool(t)
    \/ \E p \in DanglingErasePts : EraserDragStart(p)
    \/ EraserDragStop

SpecDangling == InitDangling /\ [][NextDangling]_vars

\* the ids of the objects of a scene, in scene order
Ids(objs) == [k \in 1..Len(objs) |-> objs[k].id]

\* the id is that of an object of the scene
Resolves(id) == \E k \in 1..Len(objects) : objects[k].id = id

\* the ids of the list that resolve, in the order of the list
Resolving(ids) == SelectSeq(ids, LAMBDA id : Resolves(id))

\* the selection holds an id of no object of the scene
Dangling == \E i \in 1..Len(selected_objects) : ~Resolves(selected_objects[i])

\* a Select-tool frame that starts a drag, and a later frame of the drag
SelectStartFrame == current_tool = "Select" /\ count.drags' = count.drags + 1
SelectDragFrame == current_tool = "Select" /\ count.steps' = count.steps + 1

\* the scene after the frame when the unresolved ids are taken out of the
\* selection beforehand
SceneWithoutDangling(drag_started, canvas_pos) ==
    handle_select_tool([SelectFields EXCEPT
                            !.selected_objects = Resolving(selected_objects)],
                       drag_started, TRUE, FALSE, canvas_pos, canvas_zoom).objects

\* C19: when the selection holds ids that no longer resolve in the scene
\* (after an erase, an undo or Clear All), a Select-tool frame (bounds
\* computation, move, scale or rotate step) skips those ids: it changes the
\* scene exactly as it would with the resolving ids alone, and the restore of
\* a Scaling or Rotating step does not re-insert an object that has left the
\* scene: the scene holds the same ids in the same order after the frame.
C19_DanglingSkipped ==
    [][(Dangling /\ (SelectStartFrame \/ SelectDragFrame)) =>
          /\ Ids(objects') = Ids(objects)
          /\ objects' = IF SelectStartFrame
                        THEN SceneWithoutDangling(TRUE, pointer'[1])
                        ELSE SceneWithoutDangling(FALSE, pointer'[1])]_vars

\* a Scaling gesture saved the five selected objects, an undo then took the
\* formula glyph out of the scene, and a later step of the gesture has
\* transformed the four objects that are left
C19_Witness ==
    /\ count.pushes = 0 /\ count.undos = 1
    /\ selection_mode = "Scaling"
    /\ Len(selection_saved_objects) = 5
    /\ Len(selected_objects) = 5
    /\ Ids(objects) = <<1, 2, 3, 4>>
    /\ \A k \in 1..4 : objects[k] # GestureScene[k]

-----------------------------------------------------------------------------
(* The order of the scene: objects are drawn on, erased from and moved,     *)
(* scaled and rotated in the prepared scene.                                *)

MaxOrderDrags == 2
MaxOrderSteps == 1
MaxOrderPushes == 2

OrderTools == {"Brush", "Square", "Eraser", "Select", "Text"}
OrderTextPts == {P(20, 60), P(120, 90)}
OrderStartPts == {P(30, 20), P(100, 40), P(30, -20)}
OrderMarquees == {<<P(0, 0), P(60, 40)>>, <<P(130, 130), P(0, 0)>>}

InitOrder ==
    /\ objects = GestureScene
    /\ undo_stack = SubSeq(GestureScenes, 1, Len(GestureScenes) - 1)
    /\ current_tool = "Select"
    /\ canvas_zoom = F(1)
    /\ canvas_offset = <<F(0), F(0)>>
    /\ is_drawing = FALSE
    /\ current_stroke = <<>>
    /\ draw_start_pos = None
    /\ selected_objects \in
          {MarqueeLoop(GestureScene, m, 1, <<>>) : m \in OrderMarquees}
    /\ selection_start = None
    /\ selection_rect = None
    /\ selection_mode = "None"
    /\ selection_drag_start = None
    /\ selection_original_bounds = None
    /\ selection_handle = None
    /\ selection_saved_objects = <<>>
    /\ editing_text = None
    /\ text_input = <<>>
    /\ text_cursor_pos = 0
    /\ next_id = Len(GestureScene) + 1
    /\ pointer = None
    /\ count = [drags |-> 0, steps |-> 0, pushes |-> 0, undos |-> 0]
    /\ limit = [drags |-> MaxOrderDrags, steps |-> MaxOrderSteps,
                pushes |-> MaxOrderPushes, undos |-> 0]

NextOrder ==
    \/ \E t \in OrderTools : SelectTool(t)
    \/ \E p \in DrawPts : BrushDragStart(p)
    \/ \E p \in DrawPts : BrushDrag(p)
    \/ BrushDragStop
    \/ \E p \in DrawPts : ShapeDragStart(p)
    \/ \E p \in DrawPts : ShapeDragStop(p)
    \/ \E p \in DanglingErasePts : EraserDragStart(p)
    \/ \E p \in DanglingErasePts : EraserDrag(p)
    \/ EraserDragStop
    \/ \E p \in OrderStartPts : SelectDragStart(p)
    \/ \E p \in DanglingStepPts : SelectDrag(p)
    \/ SelectDragStop
    \/ \E p \in OrderTextPts : TextClick(p)
    \/ KeyEnter

SpecOrder == InitOrder /\ [][NextOrder]_vars

\* the ids of the scene a that are also in the scene b, in the order of a
CommonIds(a, b) ==
    SelectSeq(Ids(a), LAMBDA id : \E k \in 1..Len(b) : b[k].id = id)

\* the scene without its k-th object
Without(objs, k) == SubSeq(objs, 1, k - 1) \o SubSeq(objs, k + 1, Len(objs))

\* C20: the z-order of the scene is never changed implicitly: a brush, shape
\* or formula creation appends the new object as the last element, an erase
\* removes exactly one object, a move, scale or rotate step changes objects
\* in place, and over every such step the objects present both before and
\* after keep their relative order.
C20_ZOrderKept ==
    [][/\ CommonIds(objects, objects') = CommonIds(objects', objects)
       /\ next_id' # next_id =>
             /\ Len(objects') = Len(objects) + 1
             /\ SubSeq(objects', 1, Len(objects)) = objects
             /\ objects'[Len(objects')].id = next_id
       /\ (current_tool = "Eraser" /\ objects' # objects) =>
             \E k \in 1..Len(objects) : objects' = Without(objects, k)
       /\ current_tool = "Select" => Ids(objects') = Ids(objects)]_vars

\* a formula glyph was created, the older formula glyph was erased from the
\* middle of the scene, and the selected rectangle was moved: the scene holds
\* the ids in their order of creation
C20_Witness ==
    /\ Ids(objects) = <<1, 2, 3, 4, 6>>
    /\ objects[5].kind = "LatexFormula"
    /\ selected_objects = <<1>>
    /\ objects[1] # GestureScene[1]
    /\ \A k \in 2..4 : objects[k] = GestureScene[k]

\* no two objects of the scene have the same id
UniqueIds(objs) ==
    \A j, k \in 1..Len(objs) : objs[j].id = objs[k].id => j = k

\* the id is that of an object of the scene or of a snapshot of the history
UsedId(id, objs, stack) ==
    \/ \E k \in 1..Len(objs) : objs[k].id = id
    \/ \E n \in 1..Len(stack) : \E k \in 1..Len(stack[n]) : stack[n][k].id = id

\* C21: no two objects of the scene share an id; a Select gesture (move, scale,
\* rotate, the restore of the saved objects) or a formula text commit leaves
\* the id of every object as it is; and the id of a newly created object is
\* that of no object of the scene and of no snapshot of the history.
C21_IdsUniqueImmutable ==
    [][/\ UniqueIds(objects) /\ UniqueIds(objects')
       /\ (current_tool = "Select" \/ editing_text' # editing_text) =>
             \/ Len(objects') = Len(objects) + 1
             \/ /\ Len(objects') = Len(objects)
                /\ \A k \in 1..Len(objects) : objects'[k].id = objects[k].id
       /\ Len(objects') = Len(objects) + 1 =>
             ~UsedId(objects'[Len(objects')].id, objects, undo_stack')]_vars

\* a formula glyph was created and its text committed, and the selected
\* rectangle was transformed by a gesture: six objects with six ids, the
\* newest snapshot being the scene before the creation
C21_Witness ==
    /\ Len(objects) = 6
    /\ objects[6].kind = "LatexFormula"
    /\ editing_text = None
    /\ objects[1] # GestureScene[1] /\ objects[1].id = 1
    /\ undo_stack # <<>>
    /\ Len(undo_stack[Len(undo_stack)]) = 5
    /\ ~UsedId(objects[6].id, <<>>, undo_stack)

\* C22: the selection never holds the same object id twice, in every state
\* reached by Select-tool gestures, erase, undo and Clear All.
C22_SelectionNoDuplicates ==
    \A i, j \in 1..Len(selected_objects) :
        selected_objects[i] = selected_objects[j] => i = j

\* a marquee gesture has ended and selected three objects of the scene
C22_Witness ==
    /\ count.drags >= 1
    /\ pointer = None
    /\ selection_mode = "None"
    /\ selected_objects = <<1, 2, 5>>

\* C23: during every drag step in Selecting mode only the marquee rectangle
\* changes, to the pair (start point, current point); the selection
\* membership, the objects of the scene and the history stay as they are
\* until the gesture ends.
C23_SelectingOnlyMarquee ==
    [][(selection_mode = "Selecting" /\ DragFrame) =>
          /\ selection_start # None
          /\ selection_rect' = Some(<<selection_start[1], pointer'[1]>>)
          /\ UNCHANGED <<selected_objects, objects, undo_stack>>
          /\ UNCHANGED <<selection_start, selection_mode, selection_drag_start,
                         selection_original_bounds, selection_handle,
                         selection_saved_objects, current_tool, canvas_zoom, canvas_offset,
                         ToolFields, TextFields, next_id>>]_vars

\* a later frame of a marquee drag: the marquee already holds an object of
\* the scene, and the selection is still empty
C23_Witness ==
    /\ selection_mode = "Selecting"
    /\ count.steps >= 1
    /\ selection_start # None /\ pointer # None
    /\ selection_rect = Some(<<selection_start[1], pointer[1]>>)
    /\ MarqueeLoop(objects, selection_rect[1], 1, <<>>) # <<>>
    /\ selected_objects = <<>>

-----------------------------------------------------------------------------
(* Formula texts: the formula glyph of the prepared scene is edited and     *)
(* committed, a second one is created, and the renderer sets cached sizes.  *)

MaxFormula == 2
MaxRenders == 2

InitText ==
    /\ objects = GestureScene
    /\ undo_stack = SubSeq(GestureScenes, 1, Len(GestureScenes) - 1)
    /\ current_tool = "Text"
    /\ canvas_zoom = F(1)
    /\ canvas_offset = <<F(0), F(0)>>
    /\ is_drawing = FALSE
    /\ current_stroke = <<>>
    /\ draw_start_pos = None
    /\ selected_objects = <<>>
    /\ selection_start = None
    /\ selection_rect = None
    /\ selection_mode = "None"
    /\ selection_drag_start = None
    /\ selection_original_bounds = None
    /\ selection_handle = None
    /\ selection_saved_objects = <<>>
    /\ editing_text = None
    /\ text_input = <<>>
    /\ text_cursor_pos = 0
    /\ next_id = Len(GestureScene) + 1
    /\ pointer = None
    /\ count = [drags |-> 0, steps |-> 0, pushes |-> 0, undos |-> 0]
    /\ limit = [drags |-> 0, steps |-> MaxRenders, pushes |-> 1, undos |-> 0]

NextText ==
    \/ \E p \in OrderTextPts : TextClick(p)
    \/ \E c \in FormulaChars : TextTyped(c, MaxFormula)
    \/ KeyEnter
    \/ KeyEscape
    \/ RenderObjects

SpecText == InitText /\ [][NextText]_vars

\* the box from the anchor of the formula glyph to anchor + (100,40)
Placeholder(obj) ==
    <<obj.pos, <<FAdd(obj.pos[1], F(100)), FAdd(obj.pos[2], F(40))>>>>

\* C24: whenever the text of a formula glyph is changed by the commit of a
\* text edit, its cached size is absent right after the commit, so that its
\* bounds are the 100x40 placeholder until the renderer sets a size for the
\* new text.
C24_CommitClearsSize ==
    [][\A k \in 1..Len(objects) :
          (/\ k <= Len(objects')
           /\ objects[k].kind = "LatexFormula"
           /\ objects'[k].id = objects[k].id
           /\ objects'[k].formula # objects[k].formula) =>
              /\ objects'[k].cached_size = None
              /\ bounds(objects'[k]) = Placeholder(objects'[k])]_vars

\* the formula glyph was rendered once, which gave the text "x" a cached
\* size, and a commit has then changed its text to one that does not render
C24_Witness ==
    /\ count.steps = 1
    /\ editing_text = None
    /\ objects[5].formula = <<"x", "{">>
    /\ objects[5].cached_size = None
    /\ Len(objects) = 5

-----------------------------------------------------------------------------
(* Undo down to the empty history: the five snapshots of the prepared scene *)
(* are undone, before or in the middle of a Select gesture, and undo is     *)
(* asked for once more.                                                     *)

MaxUndoDrags == 1
MaxUndoSteps == 1

InitUndo ==
    /\ objects = GestureScene
    /\ undo_stack = SubSeq(GestureScenes, 1, Len(GestureScenes) - 1)
    /\ current_tool = "Select"
    /\ canvas_zoom = F(1)
    /\ canvas_offset = <<F(0), F(0)>>
    /\ is_drawing = FALSE
    /\ current_stroke = <<>>
    /\ draw_start_pos = None
    /\ selected_objects \in
          {<<>>} \cup {MarqueeLoop(GestureScene, m, 1, <<>>) : m \in GestureMarquees}
    /\ selection_start = None
    /\ selection_rect = None
    /\ selection_mode = "None"
    /\ selection_drag_start = None
    /\ selection_original_bounds = None
    /\ selection_handle = None
    /\ selection_saved_objects = <<>>
    /\ editing_text = None
    /\ text_input = <<>>
    /\ text_cursor_pos = 0
    /\ next_id = Len(GestureScene) + 1
    /\ pointer = None
    /\ count = [drags |-> 0, steps |-> 0, pushes |-> 0, undos |-> 0]
    /\ limit = [drags |-> MaxUndoDrags, steps |-> MaxUndoSteps, pushes |-> 0,
                undos |-> Len(GestureScene) + 1]

NextUndo ==
    \/ \E p \in DanglingStartPts : SelectDragStart(p)
    \/ \E p \in DanglingStepPts : SelectDrag(p)
    \/ SelectDragStop
    \/ Undo

SpecUndo == InitUndo /\ [][NextUndo]_vars

\* C25: an undo with an empty history is a no-op: the scene, the selection,
\* the state of the gesture and the (empty) history are as before, and so is
\* every other field of the application.
C25_UndoEmptyNoOp ==
    [][(count.undos' = count.undos + 1 /\ undo_stack = <<>>) =>
          /\ UNCHANGED <<objects, undo_stack, selected_objects>>
          /\ UNCHANGED <<selection_start, selection_rect, selection_mode,
                         selection_drag_start, selection_original_bounds,
                         selection_handle, selection_saved_objects>>
          /\ UNCHANGED <<current_tool, canvas_zoom, canvas_offset, ToolFields, TextFields,
                         next_id, pointer>>]_vars

\* the five snapshots were undone and undo was asked for a sixth time, in the
\* middle of a Scaling gesture on a selection that is still held
C25_Witness ==
    /\ count.undos = Len(GestureScene) + 1
    /\ undo_stack = <<>>
    /\ selected_objects # <<>>
    /\ selection_mode = "Scaling"
    /\ selection_saved_objects # <<>>
    /\ pointer # None

----------------------------------------------------------------------------
(* canvas.rs, app.rs: the view.  The canvas is shown scaled by canvas_zoom  *)
(* and shifted by canvas_offset; the scroll wheel zooms around the hovered  *)
(* screen position and a drag with the middle button pans.                  *)

screen_to_canvas(screen_pos, offset, zoom) ==
    <<FDiv(FSub(screen_pos[1], offset[1]), zoom),
      FDiv(FSub(screen_pos[2], offset[2]), zoom)>>

\* a mapping to the screen that shifts before it scales
canvas_to_screen_shifted(canvas_pos, offset, zoom) ==
    <<FMul(FAdd(canvas_pos[1], offset[1]), zoom),
      FMul(FAdd(canvas_pos[2], offset[2]), zoom)>>

canvas_to_screen(canvas_pos, offset, zoom) ==
    <<FAdd(FMul(canvas_pos[1], zoom), offset[1]),
      FAdd(FMul(canvas_pos[2], zoom), offset[2])>>

\* f32::clamp
clamp(x, min, max) == IF FLt(x, min) THEN min ELSE IF FLt(max, x) THEN max ELSE x

\* 1.0 + scroll_delta * 0.001
zoom_factor(scroll_delta) == FAdd(F(1), FMul(scroll_delta, Q(1, 1000)))

\* hover_pos + (canvas_offset - hover_pos) * zoom_ratio
ZoomedOffset(hover_pos, offset, zoom_ratio) ==
    <<FAdd(hover_pos[1], FMul(FSub(offset[1], hover_pos[1]), zoom_ratio)),
      FAdd(hover_pos[2], FMul(FSub(offset[2], hover_pos[2]), zoom_ratio))>>

\* a scroll step whose zoom is not clamped
ScrollZoomUnclamped(scroll_delta, hover_pos) ==
    /\ scroll_delta # F(0)
    /\ count.steps < limit.steps
    /\ canvas_zoom' = FMul(canvas_zoom, zoom_factor(scroll_delta))
    /\ canvas_zoom' # F(0)
    /\ canvas_offset' =
          IF hover_pos # None
          THEN ZoomedOffset(hover_pos[1], canvas_offset,
                            FDiv(canvas_zoom', canvas_zoom))
          ELSE canvas_offset
    /\ count' = Counted("steps")
    /\ UNCHANGED <<objects, undo_stack, current_tool, ToolFields, SelectionFields,
                   TextFields, next_id, pointer, limit>>

\* a scroll step that scales the offset by the zoom factor asked for, not by
\* the ratio of the zoom after to the zoom before
ScrollZoomByFactor(scroll_delta, hover_pos) ==
    /\ scroll_delta # F(0)
    /\ count.steps < limit.steps
    /\ canvas_zoom' = clamp(FMul(canvas_zoom, zoom_factor(scroll_delta)),
                            Q(1, 10), F(10))
    /\ canvas_offset' =
          IF hover_pos # None
          THEN ZoomedOffset(hover_pos[1], canvas_offset, zoom_factor(scroll_delta))
          ELSE canvas_offset
    /\ count' = Counted("steps")
    /\ UNCHANGED <<objects, undo_stack, current_tool, ToolFields, SelectionFields,
                   TextFields, next_id, pointer, limit>>

\* render_canvas, the frame of a scroll over the canvas: response.hovered()
\* holds and smooth_scroll_delta.y is scroll_delta
ScrollZoom(scroll_delta, hover_pos) ==
    /\ scroll_delta # F(0)
    /\ count.steps < limit.steps
    /\ canvas_zoom' = clamp(FMul(canvas_zoom, zoom_factor(scroll_delta)),
                            Q(1, 10), F(10))
    /\ canvas_offset' =
          IF hover_pos # None
          THEN ZoomedOffset(hover_pos[1], canvas_offset,
                            FDiv(canvas_zoom', canvas_zoom))
          ELSE canvas_offset
    /\ count' = Counted("steps")
    /\ UNCHANGED <<objects, undo_stack, current_tool, ToolFields, SelectionFields,
                   TextFields, next_id, pointer, limit>>

\* render_canvas, a frame of a drag with the middle button
Pan(drag_delta) ==
    /\ count.drags < limit.drags
    /\ canvas_offset' = <<FAdd(canvas_offset[1], drag_delta[1]),
                          FAdd(canvas_offset[2], drag_delta[2])>>
    /\ count' = Counted("drags")
    /\ UNCHANGED <<objects, undo_stack, current_tool, canvas_zoom, ToolFields,
                   SelectionFields, TextFields, next_id, pointer, limit>>

\* the view is zoomed and panned, and the text tool is clicked at screen
\* positions, which render_canvas maps to the canvas
MaxScrolls == 3
MaxPans == 1
MaxViewPushes == 1
ScrollDeltas == {F(1000), F(-500), F(2000), F(-2000)}
HoverPts == {P(40, 30), P(120, 90)}
PanDeltas == {P(15, -5), P(-40, 20)}

InitView ==
    /\ objects = <<>>
    /\ undo_stack = <<>>
    /\ current_tool = "Text"
    /\ canvas_zoom = F(1)
    /\ canvas_offset = <<F(0), F(0)>>
    /\ is_drawing = FALSE
    /\ current_stroke = <<>>
    /\ draw_start_pos = None
    /\ selected_objects = <<>>
    /\ selection_start = None
    /\ selection_rect = None
    /\ selection_mode = "None"
    /\ selection_drag_start = None
    /\ selection_original_bounds = None
    /\ selection_handle = None
    /\ selection_saved_objects = <<>>
    /\ editing_text = None
    /\ text_input = <<>>
    /\ text_cursor_pos = 0
    /\ next_id = 1
    /\ pointer = None
    /\ count = [drags |-> 0, steps |-> 0, pushes |-> 0, undos |-> 0]
    /\ limit = [drags |-> MaxPans, steps |-> MaxScrolls, pushes |-> MaxViewPushes,
                undos |-> 0]

NextView ==
    \/ \E d \in ScrollDeltas, h \in HoverPts : ScrollZoom(d, Some(h))
    \/ \E d \in PanDeltas : Pan(d)
    \/ \E p \in HoverPts : TextClick(screen_to_canvas(p, canvas_offset, canvas_zoom))
    \/ KeyEscape

SpecView == InitView /\ [][NextView]_vars

\* C26: after any sequence of scroll-zoom and pan events that starts from
\* the zoom 1.0, the zoom of the canvas lies in [0.1, 10.0].
C26_ZoomInRange ==
    FLe(Q(1, 10), canvas_zoom) /\ FLe(canvas_zoom, F(10))

\* three scrolls and a pan have led to the upper limit, which no product of
\* the zoom factors equals: the last scroll was clamped
C26_Witness ==
    /\ canvas_zoom = F(10)
    /\ count.steps = MaxScrolls
    /\ count.drags = 1

\* C27: a zoom change while the pointer hovers at the screen position h keeps
\* the canvas point under the cursor fixed: the offset after the scroll is
\* h + (offset - h) * (zoom' / zoom), and h maps to the same canvas point
\* before and after it, also when the new zoom was clamped.
C27_CursorFixed ==
    [][count.steps' = count.steps + 1 =>
          \E h \in HoverPts :
              /\ canvas_offset' =
                    <<FAdd(h[1], FMul(FSub(canvas_offset[1], h[1]),
                                      FDiv(canvas_zoom', canvas_zoom))),
                      FAdd(h[2], FMul(FSub(canvas_offset[2], h[2]),
                                      FDiv(canvas_zoom', canvas_zoom)))>>
              /\ screen_to_canvas(h, canvas_offset', canvas_zoom')
                    = screen_to_canvas(h, canvas_offset, canvas_zoom)]_vars

\* after a pan, a scroll by -2000 at (40, 30) asked for the zoom factor -1
\* and the zoom was clamped at 0.1: the offset moved towards the cursor by
\* the ratio 1/10
C27_Witness ==
    /\ count.steps = 1 /\ count.drags = 1
    /\ canvas_zoom = Q(1, 10)
    /\ canvas_offset = <<FAdd(F(36), Q(15, 10)), FSub(F(27), Q(5, 10))>>

\* C28: screen_to_canvas and canvas_to_screen are inverses at every offset
\* and every zoom > 0 of the view: a screen position that is mapped to the
\* canvas and back is the same position, and so is a canvas point that is
\* mapped to the screen and back.
C28_RoundTrip ==
    /\ FLt(F(0), canvas_zoom)
    /\ \A p \in HoverPts \cup PanDeltas :
          /\ canvas_to_screen(screen_to_canvas(p, canvas_offset, canvas_zoom),
                              canvas_offset, canvas_zoom) = p
          /\ screen_to_canvas(canvas_to_screen(p, canvas_offset, canvas_zoom),
                              canvas_offset, canvas_zoom) = p

\* the view is zoomed and shifted, and the formula glyph that a click has
\* placed lies at a canvas point that is not the clicked screen position
\* but is shown there
C28_Witness ==
    /\ Len(objects) = 1
    /\ canvas_zoom # F(1)
    /\ canvas_offset # <<F(0), F(0)>>
    /\ objects[1].pos \notin HoverPts
    /\ canvas_to_screen(objects[1].pos, canvas_offset, canvas_zoom) \in HoverPts

----------------------------------------------------------------------------
(* smooth_stroke alone: it is applied to point sequences of every length    *)
(* from 0 to MaxStroke, the result is kept as a stroke of the scene.        *)

MaxStroke == 4
MaxSmoothPushes == 1
SmoothPts == {P(10, 10), P(50, 40), P(20, 70)}
StrokeInputs == UNION {[1..n -> SmoothPts] : n \in 0..MaxStroke}

InitSmooth ==
    /\ objects = <<>>
    /\ undo_stack = <<>>
    /\ current_tool = "Brush"
    /\ canvas_zoom = F(1)
    /\ canvas_offset = <<F(0), F(0)>>
    /\ is_drawing = FALSE
    /\ current_stroke \in StrokeInputs
    /\ draw_start_pos = None
    /\ selected_objects = <<>>
    /\ selection_start = None
    /\ selection_rect = None
    /\ selection_mode = "None"
    /\ selection_drag_start = None
    /\ selection_original_bounds = None
    /\ selection_handle = None
    /\ selection_saved_objects = <<>>
    /\ editing_text = None
    /\ text_input = <<>>
    /\ text_cursor_pos = 0
    /\ next_id = 1
    /\ pointer = None
    /\ count = [drags |-> 0, steps |-> 0, pushes |-> 0, undos |-> 0]
    /\ limit = [drags |-> 0, steps |-> 0, pushes |-> MaxSmoothPushes, undos |-> 0]

\* smooth_stroke applied to the point sequence, as in the drag_stopped block
\* of the brush
SmoothStroke ==
    /\ count.pushes < limit.pushes
    /\ objects' = Append(objects,
            Stroke(next_id, smooth_stroke(current_stroke), BLACK, F(BRUSH_SIZE)))
    /\ next_id' = next_id + 1
    /\ count' = Counted("pushes")
    /\ UNCHANGED <<undo_stack, current_tool, canvas_zoom, canvas_offset, ToolFields,
                   SelectionFields, TextFields, pointer, limit>>

NextSmooth == SmoothStroke

SpecSmooth == InitSmooth /\ [][NextSmooth]_vars

\* the step has made a stroke of the scene from the points of current_stroke
StrokeMade ==
    /\ Len(objects') = Len(objects) + 1
    /\ objects'[Len(objects')].kind = "Stroke"
    /\ objects'[Len(objects')].id = next_id
    /\ next_id' = next_id + 1

\* C29: for an input of n >= 3 points, smooth_stroke returns a sequence that
\* starts with the first and ends with the last input point and has exactly
\* 5*(n-1)+2 points, which is more than n.
C29_SmoothEndpointsLength ==
    [][(StrokeMade /\ Len(current_stroke) >= 3) =>
          LET n == Len(current_stroke)
              smoothed == objects'[Len(objects')].points
          IN  /\ Len(smoothed) = 5 * (n - 1) + 2
              /\ Len(smoothed) > n
              /\ smoothed[1] = current_stroke[1]
              /\ smoothed[Len(smoothed)] = current_stroke[n]]_vars

\* four points that start and end at different places were smoothed into 17
C29_Witness ==
    /\ Len(objects) = 1
    /\ Len(current_stroke) = MaxStroke
    /\ current_stroke[1] # current_stroke[MaxStroke]
    /\ Len(objects[1].points) = 5 * (MaxStroke - 1) + 2
    /\ objects[1].points[2] # current_stroke[2]

\* C30: for an input of fewer than 3 points (0, 1 or 2), smooth_stroke
\* returns the input sequence unchanged.
C30_SmoothShortUnchanged ==
    [][(StrokeMade /\ Len(current_stroke) < 3) =>
          objects'[Len(objects')].points = current_stroke]_vars

\* two different points were given and the stroke made of them has just them
C30_Witness ==
    /\ Len(objects) = 1
    /\ Len(current_stroke) = 2
    /\ current_stroke[1] # current_stroke[2]
    /\ objects[1].points = current_stroke

----------------------------------------------------------------------------
\* C31: under any interleaving of Select-tool drag events, tool-change key
\* presses and undo, whenever no pointer drag is in progress the selection
\* mode is None and the list of saved objects is empty.
C31_IdleBetweenDrags ==
    ~dragging => (selection_mode = "None" /\ selection_saved_objects = <<>>)

\* C32: every Rectangle of the scene has min <= max on both axes, also after
\* Move, Scale and Rotate gestures were applied to it.
C32_RectangleNormalized ==
    \A k \in 1..Len(objects) :
        objects[k].kind = "Rectangle" =>
            /\ FLe(objects[k].min[1], objects[k].max[1])
            /\ FLe(objects[k].min[2], objects[k].max[2])

\* the objects whose id is not in the id list are the same after the step
OthersKept(ids) ==
    /\ Len(objects') = Len(objects)
    /\ \A k \in 1..Len(objects) :
          (\A i \in 1..Len(ids) : ids[i] # objects[k].id) =>
              objects'[k] = objects[k]

\* C33: the drag steps of Moving, Scaling and Rotating change only objects
\* whose id is in the selection: every other object of the scene, the
\* selection list and the history are the same before and after each step.
\* On the frame that starts the drag the selection is the one the start of
\* the drag has just made.
C33_OnlySelectionChanges ==
    [][/\ (SelectDragFrame /\ selection_mode' \in {"Moving", "Scaling", "Rotating"}) =>
              /\ OthersKept(selected_objects)
              /\ selected_objects' = selected_objects
              /\ undo_stack' = undo_stack
       /\ (SelectStartFrame /\ selection_mode' \in {"Moving", "Scaling", "Rotating"}) =>
              /\ OthersKept(selected_objects')
              /\ undo_stack' = undo_stack]_vars

\* a step of a Scaling gesture has changed a selected object and the scene
\* holds objects that are not selected
C33_Witness ==
    /\ selection_mode = "Scaling"
    /\ count.steps >= 1
    /\ selection_saved_objects # <<>>
    /\ Len(selected_objects) < Len(objects)
    /\ \E k \in 1..Len(objects), j \in 1..Len(selection_saved_objects) :
          /\ selection_saved_objects[j].id = objects[k].id
          /\ selection_saved_objects[j] # objects[k]

\* the box has min <= max on both axes
Ordered(b) == FLe(b[1][1], b[2][1]) /\ FLe(b[1][2], b[2][2])

\* C34: whenever get_selection_bounds returns bounds, in a scene where the
\* bounds of every object have min <= max, the box returned has min <= max on
\* both axes; also after selected objects were erased, undone or cleared.
C34_SelectionBoundsOrdered ==
    ((\A k \in 1..Len(objects) : Ordered(bounds(objects[k])))
        /\ get_selection_bounds(objects, selected_objects) # None) =>
        Ordered(get_selection_bounds(objects, selected_objects)[1])

\* C35: in a Scaling gesture, a drag step whose point is the point where the
\* drag started leaves every selected object equal to its saved state from
\* before the gesture.
C35_GrabKeepsSize ==
    [][(StepIn({"Scaling"}) /\ selection_drag_start' = pointer') =>
          \A j \in 1..Len(selection_saved_objects'), k \in 1..Len(objects') :
              selection_saved_objects'[j].id = objects'[k].id =>
                  objects'[k] = selection_saved_objects'[j]]_vars

\* C36: in a Scaling gesture on original bounds of positive width and height
\* both scale factors of every drag step are strictly positive, wherever the
\* pointer is, also past the reference edge or corner: no selected object is
\* mirrored, and the radius of every Circle stays >= 0.
C36_ScalePositive ==
    [][(/\ StepIn({"Scaling"})
        /\ selection_original_bounds' # None /\ selection_handle' # None
        /\ FLt(selection_original_bounds'[1][1][1], selection_original_bounds'[1][2][1])
        /\ FLt(selection_original_bounds'[1][1][2], selection_original_bounds'[1][2][2])) =>
          /\ FLt(F(0), ScaleFactors(selection_original_bounds'[1], selection_handle'[1],
                                    pointer'[1])[1])
          /\ FLt(F(0), ScaleFactors(selection_original_bounds'[1], selection_handle'[1],
                                    pointer'[1])[2])
          /\ \A k \in 1..Len(objects') :
                /\ objects'[k].kind = "Circle" => FLe(F(0), objects'[k].radius)
                /\ (objects'[k].kind = "Rectangle" /\ Len(objects) = Len(objects')
                      /\ FLe(objects[k].min[1], objects[k].max[1])
                      /\ FLe(objects[k].min[2], objects[k].max[2])) =>
                        /\ FLe(objects'[k].min[1], objects'[k].max[1])
                        /\ FLe(objects'[k].min[2], objects'[k].max[2])]_vars

\* the Right handle of the selection was dragged to the left of the left
\* edge of the original bounds
C36_Witness ==
    /\ selection_mode = "Scaling"
    /\ selection_handle = Some("Right")
    /\ count.steps >= 1
    /\ pointer # None /\ selection_original_bounds # None
    /\ FLt(pointer[1][1], selection_original_bounds[1][1][1])

----------------------------------------------------------------------------
(* The eraser on the prepared scene: clicks and drags over objects that     *)
(* overlap, over a single object and over empty canvas, and undo.           *)

MaxEraseDrags == 2
MaxEraseSteps == 2
MaxErasePushes == 3
MaxEraseUndos == 2
EraserPts == {P(80, 20), P(30, 15), P(200, 200)}

InitErase ==
    /\ objects = GestureScene
    /\ undo_stack = SubSeq(GestureScenes, 1, Len(GestureScenes) - 1)
    /\ current_tool = "Eraser"
    /\ canvas_zoom = F(1)
    /\ canvas_offset = <<F(0), F(0)>>
    /\ is_drawing = FALSE
    /\ current_stroke = <<>>
    /\ draw_start_pos = None
    /\ selected_objects = <<>>
    /\ selection_start = None
    /\ selection_rect = None
    /\ selection_mode = "None"
    /\ selection_drag_start = None
    /\ selection_original_bounds = None
    /\ selection_handle = None
    /\ selection_saved_objects = <<>>
    /\ editing_text = None
    /\ text_input = <<>>
    /\ text_cursor_pos = 0
    /\ next_id = Len(GestureScene) + 1
    /\ pointer = None
    /\ count = [drags |-> 0, steps |-> 0, pushes |-> 0, undos |-> 0]
    /\ limit = [drags |-> MaxEraseDrags, steps |-> MaxEraseSteps,
                pushes |-> MaxErasePushes, undos |-> MaxEraseUndos]

NextErase ==
    \/ \E p \in EraserPts : EraserDragStart(p)
    \/ \E p \in EraserPts : EraserDrag(p)
    \/ EraserDragStop
    \/ Undo

SpecErase == InitErase /\ [][NextErase]_vars

\* a frame in which the eraser handler sees drag_started() or dragged()
EraserFrame ==
    /\ current_tool = "Eraser" /\ pointer' # None
    /\ count.drags' = count.drags + 1 \/ count.steps' = count.steps + 1

\* the positions in the scene of the objects that contain the point
Under(p) == {k \in 1..Len(objects) : contains_point(objects[k], p)}

\* C37: an eraser event removes at most one object, the topmost one under the
\* pointer, and pushes exactly one snapshot, the scene as it was just before
\* the removal; an event that hits no object changes neither the scene nor
\* the history.  An undo that follows restores the scene of the snapshot,
\* i.e. the erased object at its former position in the z-order.
C37_EraseOneTopmost ==
    [][/\ EraserFrame =>
             IF Under(pointer'[1]) = {}
             THEN objects' = objects /\ undo_stack' = undo_stack
             ELSE /\ \E k \in Under(pointer'[1]) :
                        /\ \A j \in Under(pointer'[1]) : j <= k
                        /\ objects' = Without(objects, k)
                  /\ Len(undo_stack') = Len(undo_stack) + 1
                  /\ SubSeq(undo_stack', 1, Len(undo_stack)) = undo_stack
                  /\ undo_stack'[Len(undo_stack')] = objects
       /\ (count.undos' = count.undos + 1 /\ undo_stack # <<>>) =>
             objects' = undo_stack[Len(undo_stack)]]_vars

\* the formula glyph, which lies over the circle, was erased and the erase
\* was undone: the scene is the prepared one again, the circle was not
\* touched
C37_Witness ==
    /\ count.pushes = 1 /\ count.undos = 1
    /\ objects = GestureScene
    /\ pointer = Some(P(80, 20))
    /\ Cardinality(Under(P(80, 20))) = 2

----------------------------------------------------------------------------
(* The brush: drags under the brush and under the eraser, with the tool     *)
(* keys B and E pressed between and during the drags.                       *)

NextBrush ==
    \/ \E t \in {"Brush", "Eraser"} : SelectTool(t)
    \/ \E p \in DrawPts : BrushDragStart(p)
    \/ \E p \in DrawPts : BrushDrag(p)
    \/ BrushDragStop
    \/ \E p \in DrawPts : EraserDragStart(p)
    \/ \E p \in DrawPts : EraserDrag(p)
    \/ EraserDragStop

SpecBrush == Init /\ [][NextBrush]_vars

\* the frame in which the brush handler sees drag_stopped()
BrushStopFrame == current_tool = "Brush" /\ dragging /\ pointer' = None

\* C38: a brush drag that captured fewer than 2 points adds no object and
\* pushes no snapshot; every Stroke that the brush adds to the scene has at
\* least 2 points; and at the end of the drag the drawing flag and the list
\* of points in progress are reset, whether a stroke was added or not.
C38_BrushCommit ==
    [][BrushStopFrame =>
          /\ is_drawing' = FALSE /\ current_stroke' = <<>>
          /\ (~is_drawing \/ Len(current_stroke) < 2) =>
                objects' = objects /\ undo_stack' = undo_stack
          /\ objects' # objects =>
                /\ Len(current_stroke) >= 2
                /\ Len(objects') = Len(objects) + 1
                /\ SubSeq(objects', 1, Len(objects)) = objects
                /\ objects'[Len(objects')].kind = "Stroke"
                /\ Len(objects'[Len(objects')].points) >= 2
                /\ undo_stack' # <<>>
                /\ undo_stack'[Len(undo_stack')] = objects]_vars

\* a drag released on its first frame has added a stroke of two points, and
\* the brush is idle again
C38_Witness ==
    /\ current_tool = "Brush" /\ pointer = None
    /\ Len(objects) = 1 /\ objects[1].kind = "Stroke"
    /\ Len(objects[1].points) = 2
    /\ is_drawing = FALSE /\ current_stroke = <<>>
    /\ Len(undo_stack) = 1

----------------------------------------------------------------------------
\* the order in which get_handle_at_pos is specified to look at the handles
HandleOrder ==
    <<"TopLeft", "TopRight", "BottomLeft", "BottomRight", "Top", "Bottom",
      "Left", "Right", "Rotate">>

\* the first handle in that order whose region contains p, none if there is
\* no such handle
FirstHandle(p, b, zoom) ==
    IF HandlesUnder(p, b, zoom) = {} THEN None
    ELSE Some(HandleOrder[CHOOSE i \in 1..Len(HandleOrder) :
                /\ HandleOrder[i] \in HandlesUnder(p, b, zoom)
                /\ \A j \in 1..(i - 1) : HandleOrder[j] \notin HandlesUnder(p, b, zoom)])

\* C39: get_handle_at_pos returns a handle only if the point is strictly
\* within 10/zoom of that handle's position on both axes (corners and edge
\* midpoints of the bounds, rotate handle 30/zoom above the midpoint of the
\* top edge); of several handles whose regions contain the point it returns
\* the first in the order TopLeft, TopRight, BottomLeft, BottomRight, Top,
\* Bottom, Left, Right, Rotate; it returns none when no region contains the
\* point.  Stated for the drag starts of the Select tool, which apply it to
\* the bounds of the selection.
C39_HandleLookup ==
    [][(DragStartFrame /\ selected_objects # <<>>) =>
             LET b == get_selection_bounds(objects, selected_objects)[1]
                 h == FirstHandle(pointer'[1], b, canvas_zoom)
             IN  /\ get_handle_at_pos(pointer'[1], b, canvas_zoom) = h
                 /\ h # None => selection_handle' = h
                 /\ h = None => selection_mode' \notin {"Scaling", "Rotating"}]_vars

\* a Scaling gesture was started at a point that lies in the regions of two
\* handles or more
C39_Witness ==
    /\ selection_mode = "Scaling"
    /\ selection_drag_start # None /\ selection_original_bounds # None
    /\ Cardinality(HandlesUnder(selection_drag_start[1], selection_original_bounds[1],
                                canvas_zoom)) >= 2

\* C40: for an input of n >= 3 points the output of smooth_stroke contains
\* every input point in input order: the input point i (0 <= i <= n-2) is at
\* the output index 1 + 5*i and the last input point at the last output
\* index (indices counted from 0; the sequences here are counted from 1).
C40_SmoothKeepsInput ==
    [][(StrokeMade /\ Len(current_stroke) >= 3) =>
          LET n == Len(current_stroke)
              smoothed == objects'[Len(objects')].points
          IN  /\ \A i \in 0..(n - 2) :
                    /\ 1 + 5 * i < Len(smoothed)
                    /\ smoothed[(1 + 5 * i) + 1] = current_stroke[i + 1]
              /\ smoothed[Len(smoothed)] = current_stroke[n]]_vars

\* three different points were smoothed: the second of them is the seventh
\* point of the stroke, between points that are none of the three
C40_Witness ==
    /\ Len(objects) = 1
    /\ Len(current_stroke) = 3
    /\ Cardinality({current_stroke[i] : i \in 1..3}) = 3
    /\ Len(objects[1].points) > 7
    /\ objects[1].points[7] = current_stroke[2]
    /\ objects[1].points[6] \notin {current_stroke[i] : i \in 1..3}
    /\ objects[1].points[8] \notin {current_stroke[i] : i \in 1..3}

====
